---------------------------- MODULE Spec2Model ----------------------------
(***************************************************************************)
(* A model of the question-matching engine of the KMS repository           *)
(* (src/ai_processor.py, class AIProcessor): loading the knowledge base,   *)
(* scoring a query against each entry, ranking, and producing an answer;   *)
(* and of two parts of the server that uses it (src/main.py): the          *)
(* progress stream of a questionnaire run and the checkout of an entry.    *)
(*                                                                         *)
(* Conventions.                                                            *)
(*  - A Python str is a sequence of one-character strings.  The two        *)
(*    malformed arguments a caller can pass instead of a str are modelled  *)
(*    as one-element tuples holding a tag: NoneValue (has no .lower(), so  *)
(*    every use of it as a str raises AttributeError) and Unprintable (an  *)
(*    object whose __str__ raises, so formatting it in a print raises).    *)
(*  - A Python float in [0,1] is an exact fraction [n, d] in lowest terms. *)
(*    Within the bounds of this model the float the code computes and the  *)
(*    exact value fall on the same side of every threshold the code        *)
(*    compares against (> 0.2, < 0.5, < 0.8, >= 0.95).                     *)
(*  - print is taken never to fail for printable arguments.                *)
(***************************************************************************)
EXTENDS Integers, Sequences, FiniteSets, TLC

VARIABLES
    store,      \* rows of the questionnaires table: <<id, question, answer_key>>
    ids,        \* AIProcessor.ids
    questions,  \* AIProcessor.questions
    answers,    \* AIProcessor.answers
    call,       \* the last call made on the engine, with its arguments and result
    first,      \* the first process_question call of the run, with its result
    relevant_answers,   \* << the argument of the _synthesize_answer call of the
                        \* last process_question >>, << >> when it made none
    sa,         \* first argument of the similarity function under test
    sb,         \* second argument of the similarity function under test
    fwd,        \* _calculate_similarity(sa, sb), once called
    bwd,        \* _calculate_similarity(sb, sa), once called
    squestion,  \* argument question of the _synthesize_answer call under test
    similar_qa, \* argument similar_qa of the _synthesize_answer call under test
    synth,      \* the _synthesize_answer call, once made: its groups and result
    threads,    \* the process_question calls in flight, one per thread
    reload,     \* the _load_knowledge_base call made after construction
    load,       \* the last whole _load_knowledge_base call made after
                \* construction: what it found and the three lists before it
    progress_queues,    \* main.progress_queues: the client ids that have a queue
    queue,      \* the items of the asyncio.Queue made for the client
    producer,   \* the /process-questionnaire request: where it is suspended
    stream,     \* the /questionnaire-progress response: where its generator
                \* is suspended and the events it has yielded
    sent,       \* the progress updates put on the queue so far
    questionnaire,  \* the row of the Questionnaire table with id 1
    now,        \* datetime.utcnow(), in hours
    request     \* the last checkout, checkin or cancel request, its status
                \* code and the row as it found it

vars ==
    <<store, ids, questions, answers, call, first, relevant_answers,
      sa, sb, fwd, bwd, squestion, similar_qa, synth, threads, reload,
      load, progress_queues, queue, producer, stream, sent,
      questionnaire, now, request>>

engineVars == <<store, ids, questions, answers, call, first, relevant_answers>>

scoreVars == <<sa, sb, fwd, bwd>>

synthVars == <<squestion, similar_qa, synth>>

concVars == <<threads, reload>>

loadVars == <<load>>

progressVars == <<progress_queues, queue, producer, stream, sent>>

checkoutVars == <<questionnaire, now, request>>

appVars == <<loadVars, progressVars, checkoutVars>>

---------------------------------------------------------------------------
(* Bounds of the model. *)

\* longest string given to the similarity function under ScoreSpec
MaxStrLen == 3

\* most rows in the questionnaires table
MaxRows == 2

\* largest k passed to find_similar_questions
MaxK == 2

\* most questions in the CSV file given to /process-questionnaire
MaxQuestions == 2

\* last hour of the clock of the checkout requests
MaxClock == 6

\* most candidates passed to _synthesize_answer under SynthSpec
MaxCands == 3

---------------------------------------------------------------------------
(* Python values: strings and the two malformed arguments. *)

NoneValue == << "<None>" >>

Unprintable == << "<unprintable>" >>

IsStr(v) == v \notin {NoneValue, Unprintable}

UpperCase ==
    << "A", "B", "C", "D", "E", "F", "G", "H", "I", "J", "K", "L", "M",
       "N", "O", "P", "Q", "R", "S", "T", "U", "V", "W", "X", "Y", "Z" >>

LowerCase ==
    << "a", "b", "c", "d", "e", "f", "g", "h", "i", "j", "k", "l", "m",
       "n", "o", "p", "q", "r", "s", "t", "u", "v", "w", "x", "y", "z" >>

Digits == {"0", "1", "2", "3", "4", "5", "6", "7", "8", "9"}

Range(s) == {s[i] : i \in DOMAIN s}

\* str.lower() on one character
LowerChar(c) ==
    IF \E i \in DOMAIN UpperCase : UpperCase[i] = c
    THEN LowerCase[CHOOSE i \in DOMAIN UpperCase : UpperCase[i] = c]
    ELSE c

\* str.lower()
Lower(s) == [i \in DOMAIN s |-> LowerChar(s[i])]

\* the regular expression class \w
IsWordChar(c) == c \in Range(UpperCase) \cup Range(LowerCase) \cup Digits \cup {"_"}

\* the regular expression class \s, and the characters str.split and str.strip drop
IsSpaceChar(c) == c \in {" ", "\t", "\n", "\r"}

KeepChar(c) == IsWordChar(c) \/ IsSpaceChar(c)

\* re.sub(r'[^\w\s]', '', s)
RemovePunctuation(s) == SelectSeq(s, KeepChar)

\* re.sub(r'[^\w\s]', '', s.lower())
Clean(s) == RemovePunctuation(Lower(s))

RECURSIVE SplitFrom(_, _, _)
\* str.split(): the maximal runs of non-whitespace of s[i..], cur being the
\* run read so far
SplitFrom(s, i, cur) ==
    IF i > Len(s)
    THEN IF cur = << >> THEN << >> ELSE << cur >>
    ELSE IF IsSpaceChar(s[i])
         THEN (IF cur = << >> THEN << >> ELSE << cur >>) \o SplitFrom(s, i + 1, << >>)
         ELSE SplitFrom(s, i + 1, Append(cur, s[i]))

Split(s) == SplitFrom(s, 1, << >>)

RECURSIVE LStrip(_)
LStrip(s) == IF s # << >> /\ IsSpaceChar(Head(s)) THEN LStrip(Tail(s)) ELSE s

RECURSIVE RStrip(_)
RStrip(s) ==
    IF s # << >> /\ IsSpaceChar(s[Len(s)])
    THEN RStrip(SubSeq(s, 1, Len(s) - 1))
    ELSE s

\* str.strip()
Strip(s) == RStrip(LStrip(s))

NotPipe(c) == c # "|"

\* str.replace('|', '')
RemovePipes(s) == SelectSeq(s, NotPipe)

---------------------------------------------------------------------------
(* Floats as exact fractions in lowest terms. *)

RECURSIVE Gcd(_, _)
Gcd(x, y) == IF y = 0 THEN x ELSE Gcd(y, x % y)

Frac(n, d) == LET g == Gcd(n, d) IN [n |-> n \div g, d |-> d \div g]

Zero == [n |-> 0, d |-> 1]

One == [n |-> 1, d |-> 1]

FAdd(x, y) == Frac(x.n * y.d + y.n * x.d, x.d * y.d)

FMul(x, y) == Frac(x.n * y.n, x.d * y.d)

FDiv(x, y) == Frac(x.n * y.d, x.d * y.n)

FLess(x, y) == x.n * y.d < y.n * x.d

FLeq(x, y) == x.n * y.d <= y.n * x.d

---------------------------------------------------------------------------
(* difflib.SequenceMatcher(None, a, b).ratio(), as called by               *)
(* _calculate_similarity on two strings and on two token lists.            *)

\* autojunk: in a second sequence of at least 200 elements, an element
\* occurring more than len(b) // 100 + 1 times is left out of the index b2j
Popular(b, x) ==
    /\ Len(b) >= 200
    /\ Cardinality({j \in DOMAIN b : b[j] = x}) > Len(b) \div 100 + 1

RECURSIVE J2Len(_, _, _, _, _, _)
\* j2len: the length of the longest indexed match ending with a[i] and b[j]
\* inside a[alo..] and b[blo..]
J2Len(a, b, i, j, alo, blo) ==
    IF i < alo \/ j < blo THEN 0
    ELSE IF a[i] # b[j] \/ Popular(b, b[j]) THEN 0
    ELSE 1 + J2Len(a, b, i - 1, j - 1, alo, blo)

RECURSIVE ExtendLeft(_, _, _, _)
\* the first extension loop: m = <<i, j, k>> grows to the left while the
\* elements before it are equal
ExtendLeft(a, b, m, lo) ==
    IF m[1] > lo[1] /\ m[2] > lo[2] /\ a[m[1] - 1] = b[m[2] - 1]
    THEN ExtendLeft(a, b, << m[1] - 1, m[2] - 1, m[3] + 1 >>, lo)
    ELSE m

RECURSIVE ExtendRight(_, _, _, _)
\* the second extension loop: m grows to the right
ExtendRight(a, b, m, hi) ==
    IF m[1] + m[3] <= hi[1] /\ m[2] + m[3] <= hi[2] /\ a[m[1] + m[3]] = b[m[2] + m[3]]
    THEN ExtendRight(a, b, << m[1], m[2], m[3] + 1 >>, hi)
    ELSE m

\* find_longest_match(alo, ahi, blo, bhi) on the 1-based, inclusive ranges
\* a[alo..ahi] and b[blo..bhi]: <<i, j, k>> with a[i..i+k-1] = b[j..j+k-1],
\* k largest, then i smallest, then j smallest
FindLongestMatch(a, b, alo, ahi, blo, bhi) ==
    LET ends == {e \in (alo..ahi) \X (blo..bhi) :
                    J2Len(a, b, e[1], e[2], alo, blo) > 0}
        len(e) == J2Len(a, b, e[1], e[2], alo, blo)
        \* k > bestsize: the first end, in loop order, of the largest length
        best == CHOOSE e \in ends :
                    \A f \in ends :
                        \/ len(f) < len(e)
                        \/ /\ len(f) = len(e)
                           /\ \/ e[1] < f[1]
                              \/ e[1] = f[1] /\ e[2] <= f[2]
        found == IF ends = {}
                 THEN << alo, blo, 0 >>
                 ELSE << best[1] - len(best) + 1, best[2] - len(best) + 1, len(best) >>
    IN ExtendRight(a, b, ExtendLeft(a, b, found, << alo, blo >>), << ahi, bhi >>)

RECURSIVE MatchCount(_, _, _, _, _, _)
\* the sum of the sizes of get_matching_blocks() over a[alo..ahi], b[blo..bhi]
MatchCount(a, b, alo, ahi, blo, bhi) ==
    LET m == FindLongestMatch(a, b, alo, ahi, blo, bhi)
        i == m[1]
        j == m[2]
        k == m[3]
    IN IF k = 0 THEN 0
       ELSE k + (IF alo < i /\ blo < j
                 THEN MatchCount(a, b, alo, i - 1, blo, j - 1) ELSE 0)
              + (IF i + k <= ahi /\ j + k <= bhi
                 THEN MatchCount(a, b, i + k, ahi, j + k, bhi) ELSE 0)

\* the ratio taken over the length of the first sequence alone
RatioOverFirst(a, b) ==
    IF Len(a) = 0 THEN One
    ELSE Frac(2 * MatchCount(a, b, 1, Len(a), 1, Len(b)), Len(a))

\* ratio(): 2.0 * matches / (len(a) + len(b)), and 1.0 for two empty sequences
Ratio(a, b) ==
    IF Len(a) + Len(b) = 0 THEN One
    ELSE Frac(2 * MatchCount(a, b, 1, Len(a), 1, Len(b)), Len(a) + Len(b))

---------------------------------------------------------------------------
(* AIProcessor._calculate_similarity *)

Jaccard(aWords, bWords) ==
    LET overlap == Cardinality(aWords \cap bWords)
        total == Cardinality(aWords \cup bWords)
    IN IF total > 0 THEN Frac(overlap, total) ELSE Zero

WordSim(aWords, bWords) ==
    LET common == Cardinality(aWords \cap bWords)
        totalWords == Cardinality(aWords) + Cardinality(bWords)
    IN IF totalWords > 0 THEN Frac(common * 2, totalWords) ELSE Zero

Combined(jaccard, sequence, wordOrder, wordSim) ==
    FAdd(FAdd(FAdd(FMul(jaccard, Frac(3, 10)), FMul(sequence, Frac(3, 10))),
              FMul(wordOrder, Frac(2, 10))),
         FMul(wordSim, Frac(2, 10)))

\* lines 92-122: the four signals of the cleaned strings, combined
CombinedSignals(aClean, bClean) ==
    Combined(Jaccard(Range(Split(aClean)), Range(Split(bClean))),
             Ratio(aClean, bClean),
             Ratio(Split(aClean), Split(bClean)),
             WordSim(Range(Split(aClean)), Range(Split(bClean))))

\* a.lower() raises AttributeError for an argument that is no str
SimilarityRaises(a, b) == ~IsStr(a) \/ ~IsStr(b)

\* the function without its two equality checks
CalculateSimilarityNoShortcut(a, b) ==
    IF SimilarityRaises(a, b) THEN Zero
    ELSE CombinedSignals(Clean(a), Clean(b))

CalculateSimilarity(a, b) ==
    IF SimilarityRaises(a, b)
    THEN Zero   \* except Exception: return 0.0
    ELSE IF Lower(a) = Lower(b) THEN One
    ELSE IF Clean(a) = Clean(b) THEN One
    ELSE CombinedSignals(Clean(a), Clean(b))

---------------------------------------------------------------------------
(* AIProcessor._load_knowledge_base *)

EmptyCorpus == [ids |-> << >>, questions |-> << >>, answers |-> << >>]

\* the rows of SELECT id, question, answer_key kept by the cleaning loop
CleanedResults(rows) ==
    LET cleaned(r) == << r[1], RemovePipes(Strip(r[2])), RemovePipes(Strip(r[3])) >>
        kept(r) == r[2] # << >> /\ r[3] # << >>
    IN SelectSeq([i \in DOMAIN rows |-> cleaned(rows[i])], kept)

\* a load that replaces the three lists whatever it has kept
LoadKnowledgeBaseReplacing(rows, old) ==
    LET cleanedResults == CleanedResults(rows)
    IN [ids |-> [i \in DOMAIN cleanedResults |-> cleanedResults[i][1]],
        questions |-> [i \in DOMAIN cleanedResults |-> cleanedResults[i][2]],
        answers |-> [i \in DOMAIN cleanedResults |-> cleanedResults[i][3]]]

\* the three lists after the load: replaced only when some row is kept
LoadKnowledgeBase(rows, old) ==
    LET cleanedResults == CleanedResults(rows)
    IN IF rows # << >> /\ cleanedResults # << >>
       THEN [ids |-> [i \in DOMAIN cleanedResults |-> cleanedResults[i][1]],
             questions |-> [i \in DOMAIN cleanedResults |-> cleanedResults[i][2]],
             answers |-> [i \in DOMAIN cleanedResults |-> cleanedResults[i][3]]]
       ELSE old

---------------------------------------------------------------------------
(* AIProcessor.find_similar_questions *)

\* a descending sort that puts the later of two equal keys first
SortDescUnstable(s, keys) ==
    LET before(j, i) == \/ FLess(keys[i], keys[j])
                        \/ keys[j] = keys[i] /\ j > i
        rank(i) == 1 + Cardinality({j \in DOMAIN s : before(j, i)})
    IN [p \in DOMAIN s |-> s[CHOOSE i \in DOMAIN s : rank(i) = p]]

\* list.sort(key=..., reverse=True), keys[i] being the key of s[i]:
\* descending by key, equal keys keeping their order
SortDesc(s, keys) ==
    LET before(j, i) == \/ FLess(keys[i], keys[j])
                        \/ keys[j] = keys[i] /\ j < i
        rank(i) == 1 + Cardinality({j \in DOMAIN s : before(j, i)})
    IN [p \in DOMAIN s |-> s[CHOOSE i \in DOMAIN s : rank(i) = p]]

\* a slice that keeps one element too many
SliceToInclusive(s, k) ==
    IF k >= 0
    THEN SubSeq(s, 1, IF k + 1 < Len(s) THEN k + 1 ELSE Len(s))
    ELSE SubSeq(s, 1, Len(s) + k)

\* s[:k], for a negative k too
SliceTo(s, k) ==
    IF k >= 0
    THEN SubSeq(s, 1, IF k < Len(s) THEN k ELSE Len(s))
    ELSE SubSeq(s, 1, Len(s) + k)

\* the sort keys of process_question: x['similarity']
Similarities(s) == [i \in DOMAIN s |-> s[i].similarity]

\* the sort keys of find_similar_questions: x[1]
PairSimilarities(s) == [i \in DOMAIN s |-> s[i][2]]

\* a retrieval that leaves out the candidates that score 0
FindSimilarQuestionsPositive(corpus, query, k) ==
    IF corpus.questions = << >> THEN << >>
    ELSE IF query = Unprintable THEN << >>
    ELSE LET positive(c) == FLess(Frac(0, 1), c.similarity)
             scored == [i \in DOMAIN corpus.questions |->
                           [id |-> corpus.ids[i],
                            question |-> corpus.questions[i],
                            answer |-> corpus.answers[i],
                            similarity |-> CalculateSimilarity(query, corpus.questions[i])]]
         IN SliceTo(SelectSeq(SortDesc(scored, Similarities(scored)), positive), k)

\* a retrieval that a failing _calculate_similarity aborts: the exception
\* reaches the handler at line 170, which returns []
FindSimilarQuestionsAborting(corpus, query, k) ==
    IF corpus.questions = << >> THEN << >>
    ELSE IF query = Unprintable
    THEN << >>
    ELSE IF \E i \in DOMAIN corpus.questions :
                SimilarityRaises(query, corpus.questions[i])
    THEN << >>
    ELSE LET similarities ==
                 [i \in DOMAIN corpus.questions |->
                     << i, CalculateSimilarity(query, corpus.questions[i]) >>]
             sorted == SortDesc(similarities, PairSimilarities(similarities))
             top == SliceTo(sorted, k)
         IN [p \in DOMAIN top |->
                [id |-> corpus.ids[top[p][1]],
                 question |-> corpus.questions[top[p][1]],
                 answer |-> corpus.answers[top[p][1]],
                 similarity |-> top[p][2]]]

\* lines 139-153: similarities[:k] after the sort, as pairs <<i, similarity>>
\* over the list self.questions was bound to when the loop began
TopSimilarities(qs, query, k) ==
    LET similarities ==
            [i \in DOMAIN qs |-> << i, CalculateSimilarity(query, qs[i]) >>]
    IN SliceTo(SortDesc(similarities, PairSimilarities(similarities)), k)

\* a sort that reorders self.questions itself
AfterScoringInPlace(corpus, top) ==
    [corpus EXCEPT !.questions = [p \in DOMAIN top |-> corpus.questions[top[p][1]]]]

\* lines 139-149: the scoring loop and the sort act on the local list
\* similarities; the three lists of the engine are left as they are
AfterScoring(corpus, top) == corpus

FindSimilarQuestions(corpus, query, k) ==
    IF corpus.questions = << >> THEN << >>
    ELSE IF query = Unprintable
    THEN << >>   \* print(f"... {query}") raises; except Exception: return []
    ELSE LET similarities ==
                 [i \in DOMAIN corpus.questions |->
                     << i, CalculateSimilarity(query, corpus.questions[i]) >>]
             sorted == SortDesc(similarities, PairSimilarities(similarities))
             top == SliceTo(sorted, k)
         IN [p \in DOMAIN top |->
                [id |-> corpus.ids[top[p][1]],
                 question |-> corpus.questions[top[p][1]],
                 answer |-> corpus.answers[top[p][1]],
                 similarity |-> top[p][2]]]

NoMatchText ==
    << "N", "o", " ", "s", "i", "m", "i", "l", "a", "r", " ", "q", "u", "e",
      "s", "t", "i", "o", "n", "s", " ", "f", "o", "u", "n", "d", " ", "i",
      "n", " ", "t", "h", "e", " ", "k", "n", "o", "w", "l", "e", "d", "g",
      "e", " ", "b", "a", "s", "e", "." >>

ErrorText ==
    << "E", "r", "r", "o", "r", " ", "p", "r", "o", "c", "e", "s", "s", "i",
      "n", "g", " ", "q", "u", "e", "s", "t", "i", "o", "n", ".", " ", "P",
      "l", "e", "a", "s", "e", " ", "t", "r", "y", " ", "a", "g", "a", "i",
      "n", "." >>

PartiallyText ==
    << "P", "a", "r", "t", "i", "a", "l", "l", "y", " ", "-", " ", "d", "e",
      "p", "e", "n", "d", "s", " ", "o", "n", " ", "s", "p", "e", "c", "i",
      "f", "i", "c", " ", "r", "e", "q", "u", "i", "r", "e", "m", "e", "n",
      "t", "s", " ", "a", "n", "d", " ", "c", "o", "n", "t", "e", "x", "t" >>

NoteMultiple ==
    << " ", "(", "B", "a", "s", "e", "d", " ", "o", "n", " ", "m", "u", "l",
      "t", "i", "p", "l", "e", " ", "s", "i", "m", "i", "l", "a", "r", " ",
      "q", "u", "e", "s", "t", "i", "o", "n", "s", ")" >>

NoteClosely ==
    << " ", "(", "B", "a", "s", "e", "d", " ", "o", "n", " ", "c", "l", "o",
      "s", "e", "l", "y", " ", "r", "e", "l", "a", "t", "e", "d", " ", "q",
      "u", "e", "s", "t", "i", "o", "n", "s", ")" >>

YesText == << "Y", "e", "s" >>

NoText == << "N", "o" >>

YesKey == << "y", "e", "s" >>

NoKey == << "n", "o" >>

SentenceEnd == {".", "!", "?"}

\* the default of find_similar_questions' parameter k
DefaultK == 5

---------------------------------------------------------------------------
(* AIProcessor._synthesize_answer *)

\* a key taken from the answer as stored, without strip()
GroupKeyUntrimmed(answer) ==
    IF Lower(Strip(answer)) = YesKey THEN YesKey
    ELSE IF Lower(Strip(answer)) = NoKey THEN NoKey
    ELSE answer

\* the answer_groups key of an answer
GroupKey(answer) ==
    LET stripped == Strip(answer)
    IN IF Lower(stripped) = YesKey THEN YesKey
       ELSE IF Lower(stripped) = NoKey THEN NoKey
       ELSE stripped

\* lines 391-392: answer_groups[key] = answer_groups.get(key, 0) + sim; a new
\* key goes after the keys already there
AddToGroups(groups, key, sim) ==
    IF \E g \in DOMAIN groups : groups[g].key = key
    THEN [g \in DOMAIN groups |->
             IF groups[g].key = key
             THEN [key |-> key, weight |-> FAdd(groups[g].weight, sim)]
             ELSE groups[g]]
    ELSE Append(groups, [key |-> key, weight |-> sim])

RECURSIVE AnswerGroups(_, _)
\* answer_groups after the first n candidates: the keys in insertion order,
\* each with the sum of the similarities of its candidates
AnswerGroups(similarQa, n) ==
    IF n = 0 THEN << >>
    ELSE AddToGroups(AnswerGroups(similarQa, n - 1),
                     GroupKey(similarQa[n].answer), similarQa[n].similarity)

RECURSIVE SumWeights(_, _)
SumWeights(groups, n) ==
    IF n = 0 THEN Zero ELSE FAdd(SumWeights(groups, n - 1), groups[n].weight)

\* answer_groups.get(key, 0)
WeightOf(groups, key) ==
    IF \E g \in DOMAIN groups : groups[g].key = key
    THEN groups[CHOOSE g \in DOMAIN groups : groups[g].key = key].weight
    ELSE Zero

\* the sort keys of _synthesize_answer: x[1]
GroupWeights(groups) == [g \in DOMAIN groups |-> groups[g].weight]

\* lines 394-420 with ratios taken over the yes and no weights only
FromGroupsYesNoOnly(groups, yesWeight, noWeight, totalWeight) ==
    IF (\E g \in DOMAIN groups : groups[g].key \in {YesKey, NoKey})
          /\ FLess(Zero, FAdd(yesWeight, noWeight))
    THEN IF FLess(Frac(6, 10), FDiv(yesWeight, FAdd(yesWeight, noWeight)))
         THEN YesText
         ELSE IF FLess(Frac(6, 10), FDiv(noWeight, FAdd(yesWeight, noWeight)))
              THEN NoText
              ELSE PartiallyText
    ELSE IF groups # << >>
         THEN SortDesc(groups, GroupWeights(groups))[1].key
         ELSE NoneValue

\* lines 394-420 with a sort that puts the last of the heaviest groups first
FromGroupsLastTie(groups, yesWeight, noWeight, totalWeight) ==
    IF (\E g \in DOMAIN groups : groups[g].key \in {YesKey, NoKey})
          /\ FLess(Zero, totalWeight)
    THEN IF FLess(Frac(6, 10), FDiv(yesWeight, totalWeight))
         THEN YesText
         ELSE IF FLess(Frac(6, 10), FDiv(noWeight, totalWeight))
              THEN NoText
              ELSE PartiallyText
    ELSE IF groups # << >>
         THEN groups[CHOOSE g \in DOMAIN groups :
                         \A h \in DOMAIN groups :
                             \/ FLess(groups[h].weight, groups[g].weight)
                             \/ groups[h].weight = groups[g].weight /\ h <= g].key
         ELSE NoneValue

\* lines 394-420: the return value for the groups of the candidates
FromGroups(groups, yesWeight, noWeight, totalWeight) ==
    IF (\E g \in DOMAIN groups : groups[g].key \in {YesKey, NoKey})
          /\ FLess(Zero, totalWeight)
    THEN IF FLess(Frac(6, 10), FDiv(yesWeight, totalWeight))
         THEN YesText
         ELSE IF FLess(Frac(6, 10), FDiv(noWeight, totalWeight))
              THEN NoText
              ELSE PartiallyText
    ELSE IF groups # << >>
         THEN SortDesc(groups, GroupWeights(groups))[1].key
         ELSE NoneValue

SynthesizeGroups(groups) ==
    FromGroups(groups, WeightOf(groups, YesKey), WeightOf(groups, NoKey),
               SumWeights(groups, Len(groups)))

\* the return value; NoneValue is Python's None
SynthesizeAnswer(question, similarQa) ==
    IF ~IsStr(question)
    THEN NoneValue   \* question.lower() raises; except Exception: return None
    ELSE SynthesizeGroups(AnswerGroups(similarQa, Len(similarQa)))

---------------------------------------------------------------------------
(* AIProcessor.process_question *)

NoMatchResult(question) ==
    [question |-> question,
     answer |-> NoMatchText,
     confidence |-> Zero,
     is_ai_generated |-> FALSE,
     similar_questions |-> << >>]

ErrorResult(question) ==
    [question |-> question,
     answer |-> ErrorText,
     confidence |-> Zero,
     is_ai_generated |-> FALSE,
     similar_questions |-> << >>]

\* a note chosen without the band from 0.8
ConfidenceNoteTwoBands(confidence) ==
    IF FLess(confidence, Frac(5, 10)) THEN NoteMultiple ELSE NoteClosely

ConfidenceNote(confidence) ==
    IF FLess(confidence, Frac(5, 10)) THEN NoteMultiple
    ELSE IF FLess(confidence, Frac(8, 10)) THEN NoteClosely
    ELSE << >>

\* a note always appended after the text, with a '.'
WithNoteAppended(synthesized, note) ==
    IF note = << >> THEN synthesized
    ELSE synthesized \o note \o << "." >>

\* a note appended without the closing '.'
WithNoteNoPeriod(synthesized, note) ==
    IF note = << >> THEN synthesized
    ELSE IF synthesized[Len(synthesized)] \in SentenceEnd
         THEN SubSeq(synthesized, 1, Len(synthesized) - 1) \o note
                  \o << synthesized[Len(synthesized)] >>
         ELSE synthesized \o note

\* final_answer: the note goes before a closing '.', '!' or '?', or is
\* appended with a '.'
WithNote(synthesized, note) ==
    IF note = << >> THEN synthesized
    ELSE IF synthesized[Len(synthesized)] \in SentenceEnd
         THEN SubSeq(synthesized, 1, Len(synthesized) - 1) \o note
                  \o << synthesized[Len(synthesized)] >>
         ELSE synthesized \o note \o << "." >>

\* a str is true when it is not empty; None is false
Truthy(v) == v # NoneValue /\ v # << >>

\* a filter that keeps a candidate at exactly 0.2
IsRelevantInclusive(qa) == FLeq(Frac(2, 10), qa.similarity)

\* a filter that keeps every candidate above 0
IsRelevantPositive(qa) == FLess(Zero, qa.similarity)

IsRelevant(qa) == FLess(Frac(2, 10), qa.similarity)

\* a result that gives the no-match text when the synthesis is empty
SynthesisResultNoFallback(question, similarQa, hasRelevant, synthesized) ==
    [question |-> question,
     answer |-> IF hasRelevant
                THEN IF Truthy(synthesized)
                     THEN WithNote(synthesized, ConfidenceNote(similarQa[1].similarity))
                     ELSE NoMatchText
                ELSE similarQa[1].answer,
     confidence |-> similarQa[1].similarity,
     is_ai_generated |-> TRUE,
     similar_questions |-> similarQa]

\* a result that marks only the synthesized answers as generated
SynthesisResultFallbackStored(question, similarQa, hasRelevant, synthesized) ==
    IF hasRelevant /\ Truthy(synthesized)
    THEN [question |-> question,
          answer |-> WithNote(synthesized, ConfidenceNote(similarQa[1].similarity)),
          confidence |-> similarQa[1].similarity,
          is_ai_generated |-> TRUE,
          similar_questions |-> similarQa]
    ELSE [question |-> question,
          answer |-> similarQa[1].answer,
          confidence |-> similarQa[1].similarity,
          is_ai_generated |-> FALSE,
          similar_questions |-> similarQa]

\* a result whose confidence is taken from the last candidate
SynthesisResultBlended(question, similarQa, hasRelevant, synthesized) ==
    [question |-> question,
     answer |-> IF hasRelevant /\ Truthy(synthesized)
                THEN WithNote(synthesized, ConfidenceNote(similarQa[1].similarity))
                ELSE similarQa[1].answer,
     confidence |-> similarQa[Len(similarQa)].similarity,
     is_ai_generated |-> TRUE,
     similar_questions |-> similarQa]

\* lines 333-362: the result once _synthesize_answer has returned synthesized
\* (not called, and taken as None, when no candidate is relevant)
SynthesisResult(question, similarQa, hasRelevant, synthesized) ==
    IF hasRelevant /\ Truthy(synthesized)
    THEN [question |-> question,
          answer |-> WithNote(synthesized, ConfidenceNote(similarQa[1].similarity)),
          confidence |-> similarQa[1].similarity,
          is_ai_generated |-> TRUE,
          similar_questions |-> similarQa]
    ELSE [question |-> question,
          answer |-> similarQa[1].answer,
          confidence |-> similarQa[1].similarity,
          is_ai_generated |-> FLess(similarQa[1].similarity, Frac(95, 100)),
          similar_questions |-> similarQa]

\* a ranking step without the band for confidence >= 0.95
RankedResultNoExactBand(question, similarQa, relevantAnswers) ==
    SynthesisResult(question, similarQa, relevantAnswers # << >>,
                    SynthesizeAnswer(question, relevantAnswers))

\* lines 308-362: the result for the sorted, non-empty candidate list
RankedResult(question, similarQa, relevantAnswers) ==
    IF FLeq(Frac(95, 100), similarQa[1].similarity)
    THEN [question |-> question,
          answer |-> similarQa[1].answer,
          confidence |-> similarQa[1].similarity,
          is_ai_generated |-> FALSE,
          similar_questions |-> similarQa]
    ELSE SynthesisResult(question, similarQa, relevantAnswers # << >>,
                         SynthesizeAnswer(question, relevantAnswers))

\* a step that takes a best similarity of 0 for no match
FoundResultZeroNoMatch(question, found) ==
    IF found = << >> THEN NoMatchResult(question)
    ELSE IF found[1].similarity = Frac(0, 1) THEN NoMatchResult(question)
    ELSE RankedResult(question, found, SelectSeq(found, IsRelevant))

\* a step that indexes the empty list: IndexError, caught by the handler
FoundResultNoEmptyCheck(question, found) ==
    IF found = << >> THEN ErrorResult(question)
    ELSE RankedResult(question, found, SelectSeq(found, IsRelevant))

\* lines 297-327: the result for the list find_similar_questions returned
FoundResult(question, found) ==
    IF found = << >> THEN NoMatchResult(question)
    ELSE RankedResult(question, found, SelectSeq(found, IsRelevant))

\* lines 295-307: the list returned is sorted again, in place
SortedResult(question, found) ==
    FoundResult(question, SortDesc(found, Similarities(found)))

\* lines 315-331: << the argument of the _synthesize_answer call >> that
\* process_question makes on the sorted list similarQa, << >> when it makes none
SynthCallRanked(similarQa, relevantAnswers) ==
    IF FLeq(Frac(95, 100), similarQa[1].similarity) \/ relevantAnswers = << >>
    THEN << >>
    ELSE << relevantAnswers >>

\* similarQa is the list process_question returns as similar_questions: empty
\* when the call returned at line 298 or from its handler
SynthCallFound(similarQa) ==
    IF similarQa = << >> THEN << >>
    ELSE SynthCallRanked(similarQa, SelectSeq(similarQa, IsRelevant))

\* the body raises: print(f"... {question}") at its first line
ProcessBodyRaises(question) == question = Unprintable

\* the handler of except Exception prints the exception and returns a dict
ProcessHandlerRaises == FALSE

\* the call with no try around its body
ProcessQuestionRaisesUnguarded(question) == ProcessBodyRaises(question)

\* whether the call raises to its caller: the whole body is inside the try
ProcessQuestionRaises(question) ==
    ProcessBodyRaises(question) /\ ProcessHandlerRaises

\* a call that ranks the question of the call before it, kept in a global
ProcessQuestionStale(corpus, question) ==
    IF ProcessBodyRaises(question)
    THEN ErrorResult(question)
    ELSE SortedResult(question,
                      FindSimilarQuestions(
                          corpus,
                          IF call.op = "process" /\ ~ProcessBodyRaises(call.question)
                          THEN call.question ELSE question,
                          DefaultK))

ProcessQuestion(corpus, question) ==
    IF ProcessBodyRaises(question)
    THEN ErrorResult(question)
    ELSE SortedResult(question, FindSimilarQuestions(corpus, question, DefaultK))

---------------------------------------------------------------------------
(* The inputs the model draws from. *)

\* the characters of the strings scored under ScoreSpec: a lower-case and an
\* upper-case letter, whitespace and punctuation
ScoreAlphabet == {"a", "B", " ", "?"}

BoundedStrings == UNION {[1..n -> ScoreAlphabet] : n \in 0..MaxStrLen}

ScoreInputs == BoundedStrings \cup {NoneValue}

\* question and answer_key columns of the stored rows, as stored
RawQuestions ==
    { << "a" >>, << "a", " ", "B" >>, << "?" >>, << " ", "|" >> }

RawAnswers ==
    { << "Y", "e", "s" >>, << "B", "." >> }

\* the tables of n rows, ids 1..n as AUTOINCREMENT assigns them
Tables(n) ==
    {[i \in 1..n |-> << i, f[i][1], f[i][2] >>] : f \in [1..n -> RawQuestions \X RawAnswers]}

Stores == UNION {Tables(n) : n \in 0..MaxRows}

\* the question arguments
Queries ==
    { << >>, << "a" >>, << "A", "?" >>, << "a", " ", "a" >>, << "a", "B" >>,
      << "a", " " >>, NoneValue, Unprintable }

\* the query arguments of the find_similar_questions calls
RetrieveQueries == { << >>, << "a" >>, << "a", " ", "a" >>, NoneValue, Unprintable }

Ks == (-1)..MaxK

\* the answers of the candidates given to _synthesize_answer: yes and no in
\* two cases, one text in two cases and with leading whitespace, and another
SynthAnswers ==
    { << "Y", "e", "s" >>, << "n", "o" >>, << "B", "." >>, << "b", "." >>,
      << " ", "B", "." >>, << "C", "." >> }

\* their similarities: process_question passes candidates above 0.2 only
SynthSims == { Frac(1, 4), Frac(2, 5), Frac(1, 2) }

\* the candidate list with the answers and similarities f[1], ..., f[n]
SynthCandidates(f) ==
    [i \in DOMAIN f |-> [id |-> i, question |-> << "a" >>,
                         answer |-> f[i][1], similarity |-> f[i][2]]]

\* the question argument: a str, or None
SynthQuestions == { << "a" >>, NoneValue }

\* the stored rows and the questions of the capital-of-France scenario
FranceQuestion ==
    << "W", "h", "a", "t", " ", "i", "s", " ", "t", "h", "e", " ", "c", "a",
      "p", "i", "t", "a", "l", " ", "o", "f", " ", "F", "r", "a", "n", "c",
      "e", "?" >>

FranceAnswer == << "P", "a", "r", "i", "s" >>

SpainQuestion ==
    << "W", "h", "a", "t", " ", "i", "s", " ", "t", "h", "e", " ", "c", "a",
      "p", "i", "t", "a", "l", " ", "o", "f", " ", "S", "p", "a", "i", "n",
      "?" >>

SpainAnswer == << "M", "a", "d", "r", "i", "d" >>

FranceQuery ==
    << "w", "h", "a", "t", "'", "s", " ", "t", "h", "e", " ", "c", "a", "p",
      "i", "t", "a", "l", " ", "o", "f", " ", "f", "r", "a", "n", "c", "e" >>

CapitalQuery ==
    << "c", "a", "p", "i", "t", "a", "l", " ", "o", "f", " ", "f", "r", "a",
      "n", "c", "e" >>

ScenarioStores ==
    { << >>,
      << << 1, FranceQuestion, FranceAnswer >> >>,
      << << 1, SpainQuestion, SpainAnswer >> >>,
      << << 1, FranceQuestion, FranceAnswer >>, << 2, SpainQuestion, SpainAnswer >> >>,
      << << 1, SpainQuestion, SpainAnswer >>, << 2, FranceQuestion, FranceAnswer >> >> }

ScenarioQueries == { FranceQuery, FranceQuestion, CapitalQuery, << >>, NoneValue }

\* the answer_key columns of the rows under AnswerSpec: a text that ends
\* with each of '.', '!' and '?', one that ends with none, and one that loads
\* as a single space
StoredAnswers ==
    { << "B", "." >>, << "B", "!" >>, << "B", "?" >>, << "B" >>,
      << "|", " ", "|" >> }

\* the tables of n rows that store these answers for the question 'a B'
AnswerTables(n) ==
    {[i \in 1..n |-> << i, << "a", " ", "B" >>, f[i] >>] : f \in [1..n -> StoredAnswers]}

AnswerStores == UNION {AnswerTables(n) : n \in 0..MaxRows}

\* the threads that call process_question
Threads == {"t1", "t2"}

\* the tables read by the engine under ConcSpec, at construction and at the
\* reload
ConcStores ==
    { << >>,
      << << 1, << "a" >>, << "Y", "e", "s" >> >> >>,
      << << 1, << "a", " ", "B" >>, << "B", "." >> >> >>,
      << << 1, << "a", " ", "B" >>, << "B", "." >> >>,
         << 2, << "a" >>, << "Y", "e", "s" >> >> >> }

\* the questions asked under ConcSpec
ConcQueries == { << "a" >>, << "a", "B" >> }

---------------------------------------------------------------------------
(* The engine as a state machine. *)

Corpus == [ids |-> ids, questions |-> questions, answers |-> answers]

NoCall == [op |-> "none"]

ScoreIdle ==
    /\ sa = << >>
    /\ sb = << >>
    /\ fwd = << >>
    /\ bwd = << >>

SynthIdle ==
    /\ squestion = << >>
    /\ similar_qa = << >>
    /\ synth = NoCall

ThreadIdle == [pc |-> "idle"]

ReloadIdle == [pc |-> "idle"]

ConcIdle ==
    /\ threads = [t \in Threads |-> ThreadIdle]
    /\ reload = ReloadIdle

LoadIdle == [op |-> "none"]

\* main.py line 38: progress_queues = {}; no request in progress
ProgressIdle ==
    /\ progress_queues = {}
    /\ queue = << >>
    /\ producer = [pc |-> "idle", total |-> 0, i |-> 0]
    /\ stream = [pc |-> "closed", events |-> << >>]
    /\ sent = << >>

\* None, the value of a column that is not set
NoValue == << >>

\* a row nobody has checked out, and no request made
CheckoutIdle ==
    /\ questionnaire = [question |-> << "a" >>, answer_key |-> << "B" >>,
                        last_updated |-> NoValue,
                        checked_out_by |-> NoValue, checked_out_at |-> NoValue]
    /\ now = 0
    /\ request = [op |-> "none"]

AppIdle ==
    /\ load = LoadIdle
    /\ ProgressIdle
    /\ CheckoutIdle

\* AIProcessor.__init__: empty lists, then _load_knowledge_base
Init ==
    /\ store \in Stores
    /\ LET loaded == LoadKnowledgeBase(store, EmptyCorpus)
       IN /\ ids = loaded.ids
          /\ questions = loaded.questions
          /\ answers = loaded.answers
    /\ call = NoCall
    /\ first = NoCall
    /\ relevant_answers = << >>
    /\ ScoreIdle
    /\ SynthIdle
    /\ ConcIdle
    /\ AppIdle

\* a call process_question(q)
Process(q) ==
    /\ call' = [op |-> "process", question |-> q, k |-> DefaultK,
                raised |-> ProcessQuestionRaises(q),
                result |-> ProcessQuestion(Corpus, q)]
    /\ first' = IF first.op = "none"
                THEN [op |-> "process", question |-> q, result |-> call'.result,
                      between |-> FALSE]
                ELSE [first EXCEPT !.between = @ \/ q # first.question]
    /\ relevant_answers' = SynthCallFound(call'.result.similar_questions)
    /\ UNCHANGED << store, ids, questions, answers >>
    /\ UNCHANGED scoreVars
    /\ UNCHANGED synthVars
    /\ UNCHANGED concVars
    /\ UNCHANGED appVars

\* a call find_similar_questions(q, k)
Retrieve(q, k) ==
    /\ call' = [op |-> "retrieve", question |-> q, k |-> k,
                result |-> FindSimilarQuestions(Corpus, q, k)]
    /\ UNCHANGED << store, ids, questions, answers, first, relevant_answers >>
    /\ UNCHANGED scoreVars
    /\ UNCHANGED synthVars
    /\ UNCHANGED concVars
    /\ UNCHANGED appVars

Next == \E q \in Queries : Process(q)

Spec == Init /\ [][Next]_vars

RetrieveNext == \E q \in RetrieveQueries, k \in Ks : Retrieve(q, k)

RetrieveSpec == Init /\ [][RetrieveNext]_vars

\* the engine built on the rows of the scenario
ScenarioInit ==
    /\ store \in ScenarioStores
    /\ LET loaded == LoadKnowledgeBase(store, EmptyCorpus)
       IN /\ ids = loaded.ids
          /\ questions = loaded.questions
          /\ answers = loaded.answers
    /\ call = NoCall
    /\ first = NoCall
    /\ relevant_answers = << >>
    /\ ScoreIdle
    /\ SynthIdle
    /\ ConcIdle
    /\ AppIdle

ScenarioNext == \E q \in ScenarioQueries : Process(q)

ScenarioSpec == ScenarioInit /\ [][ScenarioNext]_vars

\* the engine built on rows that differ in their answers only
AnswerInit ==
    /\ store \in AnswerStores
    /\ LET loaded == LoadKnowledgeBase(store, EmptyCorpus)
       IN /\ ids = loaded.ids
          /\ questions = loaded.questions
          /\ answers = loaded.answers
    /\ call = NoCall
    /\ first = NoCall
    /\ relevant_answers = << >>
    /\ ScoreIdle
    /\ SynthIdle
    /\ ConcIdle
    /\ AppIdle

AnswerSpec == AnswerInit /\ [][Next]_vars

---------------------------------------------------------------------------
(* The similarity function on its own. *)

ScoreInit ==
    /\ sa \in ScoreInputs
    /\ sb \in ScoreInputs
    /\ fwd = << >>
    /\ bwd = << >>
    /\ store = << >>
    /\ ids = << >>
    /\ questions = << >>
    /\ answers = << >>
    /\ call = NoCall
    /\ first = NoCall
    /\ relevant_answers = << >>
    /\ SynthIdle
    /\ ConcIdle
    /\ AppIdle

\* a call _calculate_similarity(sa, sb)
ScoreForward ==
    /\ fwd = << >>
    /\ fwd' = << CalculateSimilarity(sa, sb) >>
    /\ UNCHANGED << sa, sb, bwd >>
    /\ UNCHANGED engineVars
    /\ UNCHANGED synthVars
    /\ UNCHANGED concVars
    /\ UNCHANGED appVars

\* a call _calculate_similarity(sb, sa)
ScoreBackward ==
    /\ bwd = << >>
    /\ bwd' = << CalculateSimilarity(sb, sa) >>
    /\ UNCHANGED << sa, sb, fwd >>
    /\ UNCHANGED engineVars
    /\ UNCHANGED synthVars
    /\ UNCHANGED concVars
    /\ UNCHANGED appVars

ScoreNext == ScoreForward \/ ScoreBackward

ScoreSpec == ScoreInit /\ [][ScoreNext]_vars

---------------------------------------------------------------------------
(* The synthesizer on its own. *)

SynthInit ==
    /\ squestion \in SynthQuestions
    /\ \E n \in 0..MaxCands :
           \E f \in [1..n -> SynthAnswers \X SynthSims] :
               similar_qa = SynthCandidates(f)
    /\ synth = NoCall
    /\ store = << >>
    /\ ids = << >>
    /\ questions = << >>
    /\ answers = << >>
    /\ call = NoCall
    /\ first = NoCall
    /\ relevant_answers = << >>
    /\ ScoreIdle
    /\ ConcIdle
    /\ AppIdle

\* a call _synthesize_answer(squestion, similar_qa); groups is answer_groups as
\* the call leaves it, empty when question.lower() raised before the loop
Synthesize ==
    /\ synth.op = "none"
    /\ synth' = [op |-> "synthesize",
                 groups |-> IF IsStr(squestion)
                            THEN AnswerGroups(similar_qa, Len(similar_qa))
                            ELSE << >>,
                 result |-> SynthesizeAnswer(squestion, similar_qa)]
    /\ UNCHANGED << squestion, similar_qa >>
    /\ UNCHANGED engineVars
    /\ UNCHANGED scoreVars
    /\ UNCHANGED concVars
    /\ UNCHANGED appVars

SynthNext == Synthesize

SynthSpec == SynthInit /\ [][SynthNext]_vars

---------------------------------------------------------------------------
(* process_question on several threads, and a reload, interleaved at the
   reads and writes of self.questions, self.answers and self.ids. *)

ConcInit ==
    /\ store \in ConcStores
    /\ LET loaded == LoadKnowledgeBase(store, EmptyCorpus)
       IN /\ ids = loaded.ids
          /\ questions = loaded.questions
          /\ answers = loaded.answers
    /\ call = NoCall
    /\ first = NoCall
    /\ relevant_answers = << >>
    /\ ScoreIdle
    /\ SynthIdle
    /\ ConcIdle
    /\ AppIdle

InFlight(th) == th.pc \notin {"idle", "done"}

Reloading == reload.pc \notin {"idle", "done"}

\* thread t moves to th; the other calls in flight see a step between theirs
Stepped(t, th) ==
    [u \in Threads |->
        IF u = t THEN th
        ELSE IF InFlight(threads[u])
             THEN [threads[u] EXCEPT !.interleaved = TRUE]
             ELSE threads[u]]

\* the reload writes; the calls in flight overlap it
Overlapped ==
    [u \in Threads |->
        IF InFlight(threads[u])
        THEN [threads[u] EXCEPT !.reloaded = TRUE]
        ELSE threads[u]]

\* the call has returned: process_question's lines 297-362 on the list found
Returned(th, found) ==
    [pc |-> "done", question |-> th.question, before |-> th.before,
     after |-> Corpus, interleaved |-> th.interleaved, reloaded |-> th.reloaded,
     result |-> SortedResult(th.question, found)]

\* thread t calls process_question(q)
Begin(t, q) ==
    /\ threads[t].pc = "idle"
    /\ threads' = Stepped(t, [pc |-> "check", question |-> q, before |-> Corpus,
                              interleaved |-> FALSE, reloaded |-> Reloading])
    /\ UNCHANGED << reload, store, ids, questions, answers, call, first, relevant_answers >>
    /\ UNCHANGED scoreVars
    /\ UNCHANGED synthVars
    /\ UNCHANGED appVars

\* line 131: if not self.questions: return []
CheckEmpty(t) ==
    /\ threads[t].pc = "check"
    /\ threads' = Stepped(t, IF questions = << >>
                             THEN Returned(threads[t], << >>)
                             ELSE [threads[t] EXCEPT !.pc = "score"])
    /\ UNCHANGED << reload, store, ids, questions, answers, call, first, relevant_answers >>
    /\ UNCHANGED scoreVars
    /\ UNCHANGED synthVars
    /\ UNCHANGED appVars

\* lines 139-153: the loop over the list self.questions is bound to now, the
\* sort and the slice
ScoreAll(t) ==
    /\ threads[t].pc = "score"
    /\ LET top == TopSimilarities(questions, threads[t].question, DefaultK)
           after == AfterScoring(Corpus, top)
       IN /\ threads' = Stepped(t, [pc |-> "build", question |-> threads[t].question,
                                    before |-> threads[t].before,
                                    interleaved |-> threads[t].interleaved,
                                    reloaded |-> threads[t].reloaded,
                                    top |-> top, found |-> << >>, entry |-> << >>])
          /\ ids' = after.ids
          /\ questions' = after.questions
          /\ answers' = after.answers
    /\ UNCHANGED << reload, store, call, first, relevant_answers >>
    /\ UNCHANGED scoreVars
    /\ UNCHANGED synthVars
    /\ UNCHANGED appVars

\* lines 154-160: one of self.ids[i], self.questions[i], self.answers[i], read
\* in this order for each pair of top; an index past the end of the list
\* raises IndexError and line 170 returns []
ReadField(t) ==
    /\ threads[t].pc = "build"
    /\ LET th == threads[t]
           pair == th.top[Len(th.found) + 1]
           list == IF Len(th.entry) = 0 THEN ids
                   ELSE IF Len(th.entry) = 1 THEN questions
                   ELSE answers
       IN threads' =
              Stepped(t,
                  IF pair[1] > Len(list)
                  THEN Returned(th, << >>)
                  ELSE IF Len(th.entry) < 2
                  THEN [th EXCEPT !.entry = Append(@, list[pair[1]])]
                  ELSE LET found == Append(th.found,
                                        [id |-> th.entry[1],
                                         question |-> th.entry[2],
                                         answer |-> list[pair[1]],
                                         similarity |-> pair[2]])
                       IN IF Len(found) = Len(th.top)
                          THEN Returned(th, found)
                          ELSE [th EXCEPT !.found = found, !.entry = << >>])
    /\ UNCHANGED << reload, store, ids, questions, answers, call, first, relevant_answers >>
    /\ UNCHANGED scoreVars
    /\ UNCHANGED synthVars
    /\ UNCHANGED appVars

\* lines 40-53: the rows are fetched and cleaned; nothing is assigned when no
\* row is kept
ReloadFetch(rows) ==
    /\ reload.pc = "idle"
    /\ store' = rows
    /\ reload' = [pc |-> IF rows # << >> /\ CleanedResults(rows) # << >>
                         THEN "questions" ELSE "done",
                  old |-> Corpus,
                  new |-> LoadKnowledgeBase(rows, Corpus)]
    /\ UNCHANGED << threads, ids, questions, answers, call, first, relevant_answers >>
    /\ UNCHANGED scoreVars
    /\ UNCHANGED synthVars
    /\ UNCHANGED appVars

\* line 54: self.questions = [...]
AssignQuestions ==
    /\ reload.pc = "questions"
    /\ questions' = reload.new.questions
    /\ reload' = [reload EXCEPT !.pc = "answers"]
    /\ threads' = Overlapped
    /\ UNCHANGED << store, ids, answers, call, first, relevant_answers >>
    /\ UNCHANGED scoreVars
    /\ UNCHANGED synthVars
    /\ UNCHANGED appVars

\* line 55: self.answers = [...]
AssignAnswers ==
    /\ reload.pc = "answers"
    /\ answers' = reload.new.answers
    /\ reload' = [reload EXCEPT !.pc = "ids"]
    /\ threads' = Overlapped
    /\ UNCHANGED << store, ids, questions, call, first, relevant_answers >>
    /\ UNCHANGED scoreVars
    /\ UNCHANGED synthVars
    /\ UNCHANGED appVars

\* line 56: self.ids = [...]
AssignIds ==
    /\ reload.pc = "ids"
    /\ ids' = reload.new.ids
    /\ reload' = [reload EXCEPT !.pc = "done"]
    /\ threads' = Overlapped
    /\ UNCHANGED << store, questions, answers, call, first, relevant_answers >>
    /\ UNCHANGED scoreVars
    /\ UNCHANGED synthVars
    /\ UNCHANGED appVars

ConcNext ==
    \/ \E t \in Threads, q \in ConcQueries : Begin(t, q)
    \/ \E t \in Threads : CheckEmpty(t)
    \/ \E t \in Threads : ScoreAll(t)
    \/ \E t \in Threads : ReadField(t)
    \/ \E rows \in ConcStores : ReloadFetch(rows)
    \/ AssignQuestions
    \/ AssignAnswers
    \/ AssignIds

ConcSpec == ConcInit /\ [][ConcNext]_vars

---------------------------------------------------------------------------
(* _load_knowledge_base called again on an engine that is in use, one whole
   call at a time. *)

\* the question and answer_key columns of the rows: texts the cleaning
\* keeps, and texts made of spaces and pipes only
ColumnTexts ==
    { << "a" >>, << " ", "a" >>, << "|" >>, << "|", " ", "|" >>, << " " >> }

LoadTables(n) ==
    {[i \in 1..n |-> << i, f[i][1], f[i][2] >>] :
        f \in [1..n -> ColumnTexts \X ColumnTexts]}

LoadStores == UNION {LoadTables(n) : n \in 0..MaxRows}

\* the tables a later load finds: no rows, rows the cleaning drops, and rows
\* it keeps
ReloadStores ==
    { << >>,
      << << 1, << " " >>, << "B" >> >> >>,
      << << 1, << "|" >>, << "B" >> >>, << 2, << "a" >>, << "|" >> >> >>,
      << << 7, << "B" >>, << "a" >> >> >>,
      << << 7, << " " >>, << "a" >> >>, << 8, << "B" >>, << " ", "a" >> >> >> }

LoadInit ==
    /\ store \in LoadStores
    /\ LET loaded == LoadKnowledgeBase(store, EmptyCorpus)
       IN /\ ids = loaded.ids
          /\ questions = loaded.questions
          /\ answers = loaded.answers
    /\ call = NoCall
    /\ first = NoCall
    /\ relevant_answers = << >>
    /\ ScoreIdle
    /\ SynthIdle
    /\ ConcIdle
    /\ AppIdle

\* the frame of the three load actions
LoadFrame ==
    /\ UNCHANGED << call, first, relevant_answers >>
    /\ UNCHANGED scoreVars
    /\ UNCHANGED synthVars
    /\ UNCHANGED concVars
    /\ UNCHANGED progressVars
    /\ UNCHANGED checkoutVars

\* lines 40-64: the table exists and holds these rows
LoadRows(rows) ==
    /\ store' = rows
    /\ load' = [op |-> "load", found |-> "rows", before |-> Corpus]
    /\ LET loaded == LoadKnowledgeBase(rows, Corpus)
       IN /\ ids' = loaded.ids
          /\ questions' = loaded.questions
          /\ answers' = loaded.answers
    /\ LoadFrame

\* lines 24-38: the table does not exist; it is created empty and the
\* method returns
LoadNoTable ==
    /\ store' = << >>
    /\ load' = [op |-> "load", found |-> "no table", before |-> Corpus]
    /\ UNCHANGED << ids, questions, answers >>
    /\ LoadFrame

\* lines 66-69: connect, execute, fetchall or the cleaning of a row raises;
\* the handlers print and the method returns
LoadError ==
    /\ load' = [op |-> "load", found |-> "error", before |-> Corpus]
    /\ UNCHANGED << store, ids, questions, answers >>
    /\ LoadFrame

LoadNext ==
    \/ \E rows \in ReloadStores : LoadRows(rows)
    \/ LoadNoTable
    \/ LoadError

LoadSpec == LoadInit /\ [][LoadNext]_vars

---------------------------------------------------------------------------
(* main.py: the module as loaded, before any request. *)

\* line 213: the engine is built, here on a table with no rows; line 38:
\* progress_queues = {}
ServerInit ==
    /\ store = << >>
    /\ ids = << >>
    /\ questions = << >>
    /\ answers = << >>
    /\ call = NoCall
    /\ first = NoCall
    /\ relevant_answers = << >>
    /\ ScoreIdle
    /\ SynthIdle
    /\ ConcIdle
    /\ AppIdle

---------------------------------------------------------------------------
(* main.py: a /process-questionnaire request and the /questionnaire-progress
   stream of its client.  Both are coroutines on one event loop: a step of
   the model is the code a coroutine runs between two points where it gives
   up control.  Queue.put never waits on the unbounded queue, so
   send_progress_update does not give up control; Queue.get waits while the
   queue is empty; asyncio.sleep, file.read and the yield of the generator
   give up control. *)

\* the x-client-id of the one client
Client == "c"

\* lines 402-407: the dict that send_progress_update puts on the queue
Update(current, total, phase, processed) ==
    [current_entry |-> current, total_entries |-> total, phase |-> phase,
     processed_result |-> processed]

\* lines 774, 848: None, the signal that ends the stream
EndSignal == Update(0, 0, "<None>", FALSE)

\* the updates put by a whole run over total questions
AllUpdates(total) ==
    << Update(0, 0, "Preparing", FALSE), Update(0, total, "Reading Questions", FALSE) >>
    \o [c \in 1..total |-> Update(c, total, "Reading Questions", FALSE)]
    \o [j \in 1..(2 * total) |->
           Update((j + 1) \div 2, total, "AI Processing", j % 2 = 0)]
    \o << Update(total, total, "Generating Output", FALSE),
          Update(total, total, "Complete", FALSE) >>

\* lines 399-408: send_progress_update for each of updates, in order
SendProgressUpdates(items, clients, updates) ==
    IF Client \in clients THEN items \o updates ELSE items

\* lines 773-775: put(None) is made by the caller, and then
\* del progress_queues[client_id]
EndOfUpdates(clients) == clients \ {Client}

ProgressFrame ==
    /\ UNCHANGED engineVars
    /\ UNCHANGED scoreVars
    /\ UNCHANGED synthVars
    /\ UNCHANGED concVars
    /\ UNCHANGED loadVars
    /\ UNCHANGED checkoutVars

\* a step of process_questionnaire that sends updates and then waits
Run(updates, pc, i) ==
    /\ queue' = SendProgressUpdates(queue, progress_queues, updates)
    /\ sent' = IF Client \in progress_queues THEN sent \o updates ELSE sent
    /\ producer' = [producer EXCEPT !.pc = pc, !.i = i]
    /\ UNCHANGED << progress_queues, stream >>
    /\ ProgressFrame

\* lines 601-616: the queue is made if the client has none, "Preparing" is
\* sent, and the request waits for file.read()
StartRun(total) ==
    /\ producer.pc = "idle"
    /\ progress_queues' = progress_queues \cup {Client}
    /\ queue' = Append(queue, Update(0, 0, "Preparing", FALSE))
    /\ sent' = Append(sent, Update(0, 0, "Preparing", FALSE))
    /\ producer' = [pc |-> "read", total |-> total, i |-> 0]
    /\ UNCHANGED stream
    /\ ProgressFrame

\* lines 618-699: the count, the first row, sleep
ReadFile ==
    /\ producer.pc = "read"
    /\ Run(<< Update(0, producer.total, "Reading Questions", FALSE),
              Update(1, producer.total, "Reading Questions", FALSE) >>,
           "reading", 1)

\* lines 682-699: the next row, sleep
ReadRow ==
    /\ producer.pc = "reading"
    /\ producer.i < producer.total
    /\ Run(<< Update(producer.i + 1, producer.total, "Reading Questions", FALSE) >>,
           "reading", producer.i + 1)

\* lines 710-754: the first question is processed, sleep
ProcessFirstQuestion ==
    /\ producer.pc = "reading"
    /\ producer.i = producer.total
    /\ Run(<< Update(1, producer.total, "AI Processing", FALSE),
              Update(1, producer.total, "AI Processing", TRUE) >>,
           "processing", 1)

\* lines 711-754: the next question is processed, sleep
ProcessNextQuestion ==
    /\ producer.pc = "processing"
    /\ producer.i < producer.total
    /\ Run(<< Update(producer.i + 1, producer.total, "AI Processing", FALSE),
              Update(producer.i + 1, producer.total, "AI Processing", TRUE) >>,
           "processing", producer.i + 1)

\* lines 761-775: "Generating Output", "Complete", None, and the queue is
\* removed from progress_queues, with no wait in between
FinishRun ==
    /\ producer.pc = "processing"
    /\ producer.i = producer.total
    /\ LET last == << Update(producer.total, producer.total, "Generating Output", FALSE),
                      Update(producer.total, producer.total, "Complete", FALSE) >>
       IN /\ queue' = IF Client \in progress_queues
                      THEN Append(SendProgressUpdates(queue, progress_queues, last), EndSignal)
                      ELSE queue
          /\ sent' = IF Client \in progress_queues THEN sent \o last ELSE sent
    /\ progress_queues' = EndOfUpdates(progress_queues)
    /\ producer' = [producer EXCEPT !.pc = "done"]
    /\ UNCHANGED stream
    /\ ProgressFrame

\* lines 923-929: the client opens the stream while the run has not ended;
\* the queue is made if the client has none
OpenStream ==
    /\ stream.pc = "closed"
    /\ producer.pc # "done"
    /\ progress_queues' = progress_queues \cup {Client}
    /\ stream' = [stream EXCEPT !.pc = "open"]
    /\ UNCHANGED << queue, producer, sent >>
    /\ ProgressFrame

\* lines 933-935, 940-945: the generator looks its queue up and calls get()
\* on it, or finds none and ends
LookUpQueue ==
    /\ stream.pc = "open"
    /\ stream' = [stream EXCEPT !.pc = IF Client \in progress_queues
                                       THEN "get" ELSE "ended"]
    /\ UNCHANGED << progress_queues, queue, producer, sent >>
    /\ ProgressFrame

\* lines 935-938, 943-945: get() returns the oldest item of the queue it was
\* called on; None ends the stream, anything else is yielded
GetUpdate ==
    /\ stream.pc = "get"
    /\ queue # << >>
    /\ queue' = Tail(queue)
    /\ IF Head(queue) = EndSignal
       THEN /\ stream' = [stream EXCEPT !.pc = "ended"]
            /\ progress_queues' = progress_queues \ {Client}
       ELSE /\ stream' = [stream EXCEPT !.pc = "open",
                                        !.events = Append(@, Head(queue))]
            /\ UNCHANGED progress_queues
    /\ UNCHANGED << producer, sent >>
    /\ ProgressFrame

\* the steps of the request once it has started
RunNext ==
    \/ ReadFile
    \/ ReadRow
    \/ ProcessFirstQuestion
    \/ ProcessNextQuestion
    \/ FinishRun

\* the steps of the generator of the stream
StreamNext ==
    \/ LookUpQueue
    \/ GetUpdate

ProgressNext ==
    \/ \E total \in 1..MaxQuestions : StartRun(total)
    \/ OpenStream
    \/ RunNext
    \/ StreamNext

\* the event loop runs every coroutine that is ready
ProgressSpec ==
    ServerInit /\ [][ProgressNext]_vars /\ WF_vars(RunNext) /\ WF_vars(StreamNext)

---------------------------------------------------------------------------
(* main.py: checkout, checkin and cancel-checkout of a questionnaire entry.
   The three handlers run without a wait, one whole request at a time. *)

\* line 106: timedelta(hours=4)
CheckoutExpiry == 4

Users == {"u1", "u2"}

\* the id of the row, and an id that no row has
QuestionnaireIds == {1, 2}

\* the question and answer_key fields of a checkin
EditTexts == { << "a" >>, << "b" >> }

\* a checkout that never expires
IsCheckedOutForever(row, t) ==
    row.checked_out_at # NoValue /\ row.checked_out_by # NoValue

\* lines 102-108: Questionnaire.is_checked_out at the hour t
IsCheckedOut(row, t) ==
    IF row.checked_out_at = NoValue \/ row.checked_out_by = NoValue
    THEN FALSE
    ELSE t - row.checked_out_at[1] < CheckoutExpiry

\* lines 1637-1663: checkout_questionnaire
CheckoutQuestionnaire(row, t, id, user) ==
    IF id # 1 THEN [status |-> 404, row |-> row]
    ELSE IF IsCheckedOut(row, t) /\ row.checked_out_by # << user >>
    THEN [status |-> 409, row |-> row]
    ELSE [status |-> 200,
          row |-> [row EXCEPT !.checked_out_by = << user >>,
                              !.checked_out_at = << t >>]]

\* lines 1692-1722: checkin_questionnaire
CheckinQuestionnaire(row, t, id, user, question, answer_key) ==
    IF id # 1 THEN [status |-> 404, row |-> row]
    ELSE IF ~IsCheckedOut(row, t) \/ row.checked_out_by # << user >>
    THEN [status |-> 403, row |-> row]
    ELSE [status |-> 200,
          row |-> [question |-> question, answer_key |-> answer_key,
                   last_updated |-> << t >>,
                   checked_out_by |-> NoValue, checked_out_at |-> NoValue]]

\* lines 1739-1760: cancel_checkout
CancelCheckoutOf(row, t, id, user) ==
    IF id # 1 THEN [status |-> 404, row |-> row]
    ELSE IF ~IsCheckedOut(row, t) \/ row.checked_out_by # << user >>
    THEN [status |-> 403, row |-> row]
    ELSE [status |-> 200,
          row |-> [row EXCEPT !.checked_out_by = NoValue,
                              !.checked_out_at = NoValue]]

CheckoutFrame ==
    /\ UNCHANGED now
    /\ UNCHANGED engineVars
    /\ UNCHANGED scoreVars
    /\ UNCHANGED synthVars
    /\ UNCHANGED concVars
    /\ UNCHANGED loadVars
    /\ UNCHANGED progressVars

\* the request made, the row it found, and the response
Responded(op, id, user, response) ==
    /\ questionnaire' = response.row
    /\ request' = [op |-> op, id |-> id, user |-> user, at |-> now,
                   before |-> questionnaire, status |-> response.status]
    /\ CheckoutFrame

Checkout(id, user) ==
    Responded("checkout", id, user, CheckoutQuestionnaire(questionnaire, now, id, user))

Checkin(id, user, question, answer_key) ==
    Responded("checkin", id, user,
              CheckinQuestionnaire(questionnaire, now, id, user, question, answer_key))

CancelCheckout(id, user) ==
    Responded("cancel", id, user, CancelCheckoutOf(questionnaire, now, id, user))

\* an hour passes
Tick ==
    /\ now < MaxClock
    /\ now' = now + 1
    /\ UNCHANGED << questionnaire, request >>
    /\ UNCHANGED engineVars
    /\ UNCHANGED scoreVars
    /\ UNCHANGED synthVars
    /\ UNCHANGED concVars
    /\ UNCHANGED loadVars
    /\ UNCHANGED progressVars

CheckoutNext ==
    \/ \E id \in QuestionnaireIds, user \in Users : Checkout(id, user)
    \/ \E id \in QuestionnaireIds, user \in Users, question \in EditTexts,
          answer_key \in EditTexts : Checkin(id, user, question, answer_key)
    \/ \E id \in QuestionnaireIds, user \in Users : CancelCheckout(id, user)
    \/ Tick

CheckoutSpec == ServerInit /\ [][CheckoutNext]_vars

---------------------------------------------------------------------------
(* Properties of process_question, checked under Spec. *)

InUnitInterval(x) == FLeq(Zero, x) /\ FLeq(x, One)

ResultFields ==
    {"question", "answer", "confidence", "is_ai_generated", "similar_questions"}

Candidates == call.result.similar_questions

\* C1: process_question never raises to its caller; it returns a result with
\* the five fields, and when its body raises the result is the fixed error
\* text with confidence 0.0, is_ai_generated false and no candidates.
C1_NeverRaises ==
    call.op = "process" =>
        /\ ~call.raised
        /\ DOMAIN call.result = ResultFields
        /\ call.result.question = call.question
        /\ IsStr(call.result.answer)
        /\ InUnitInterval(call.result.confidence)
        /\ call.result.is_ai_generated \in BOOLEAN
        /\ ProcessBodyRaises(call.question) =>
               /\ call.result.answer = ErrorText
               /\ call.result.confidence = Zero
               /\ call.result.is_ai_generated = FALSE
               /\ call.result.similar_questions = << >>

\* a call whose body raised although the corpus holds entries
C1_Witness ==
    /\ call.op = "process"
    /\ call.question = Unprintable
    /\ questions # << >>
    /\ call.result.answer = ErrorText

\* C2: when the best candidate's similarity is >= 0.95 the answer is that
\* candidate's stored answer, unchanged, and is_ai_generated is false.
C2_ExactBand ==
    (call.op = "process" /\ Candidates # << >>
        /\ FLeq(Frac(95, 100), Candidates[1].similarity)) =>
        /\ call.result.answer = Candidates[1].answer
        /\ \E i \in DOMAIN ids :
               ids[i] = Candidates[1].id /\ answers[i] = call.result.answer
        /\ call.result.is_ai_generated = FALSE

\* an exact match returned while a second candidate was eligible for synthesis
C2_Witness ==
    /\ call.op = "process"
    /\ Len(Candidates) >= 2
    /\ FLeq(Frac(95, 100), Candidates[1].similarity)
    /\ IsRelevant(Candidates[2])
    /\ Candidates[2].answer # Candidates[1].answer
    /\ call.result.is_ai_generated = FALSE

\* C3: in a result with candidates, confidence is the similarity of the first
\* candidate, which is the largest similarity among the candidates and among
\* the entries of the corpus, whichever strategy produced the answer.
C3_ConfidenceIsBest ==
    (call.op = "process" /\ Candidates # << >>) =>
        /\ call.result.confidence = Candidates[1].similarity
        /\ \A i \in DOMAIN Candidates :
               FLeq(Candidates[i].similarity, call.result.confidence)
        /\ \A i \in DOMAIN questions :
               FLeq(CalculateSimilarity(call.question, questions[i]),
                    call.result.confidence)

\* a synthesized answer over two candidates of different similarity
C3_Witness ==
    /\ call.op = "process"
    /\ Len(Candidates) >= 2
    /\ FLess(Candidates[2].similarity, Candidates[1].similarity)
    /\ IsRelevant(Candidates[2])
    /\ call.result.is_ai_generated
    /\ call.result.answer # Candidates[1].answer
    /\ call.result.confidence = Candidates[1].similarity

\* C4: with an empty corpus, process_question of any printable question
\* returns the no-match message, confidence 0.0, is_ai_generated false and no
\* candidates, and does not raise.
C4_EmptyCorpus ==
    (call.op = "process" /\ questions = << >> /\ call.question # Unprintable) =>
        /\ ~call.raised
        /\ call.result = NoMatchResult(call.question)

\* a question asked of a corpus that is empty because every stored row is blank
C4_Witness ==
    /\ call.op = "process"
    /\ store # << >>
    /\ questions = << >>
    /\ IsStr(call.question)
    /\ call.question # << >>
    /\ call.result.answer = NoMatchText

\* C5: process_question of the empty string returns the no-match result
\* (no-match message, confidence 0.0, is_ai_generated false) whatever the
\* corpus holds.
C5_EmptyQuestionNoMatch ==
    (call.op = "process" /\ call.question = << >>) =>
        /\ call.result.answer = NoMatchText
        /\ call.result.confidence = Zero
        /\ call.result.is_ai_generated = FALSE

BestSimilarity == Candidates[1].similarity

AboveRelevance(qa) == FLess(Frac(2, 10), qa.similarity)

\* C12: when the best similarity s is in 0.2 < s < 0.95, process_question
\* calls the synthesizer on exactly the returned candidates whose similarity
\* is above 0.2, in their order, and the result has is_ai_generated true.
C12_SynthesisBand ==
    (call.op = "process" /\ Candidates # << >>
        /\ FLess(Frac(2, 10), BestSimilarity)
        /\ FLess(BestSimilarity, Frac(95, 100))) =>
        /\ relevant_answers = << SelectSeq(Candidates, AboveRelevance) >>
        /\ call.result.is_ai_generated = TRUE

\* a synthesis that left out a candidate at or below 0.2 whose answer is not
\* the answer of any candidate it was given
C12_Witness ==
    /\ call.op = "process"
    /\ relevant_answers # << >>
    /\ Len(relevant_answers[1]) < Len(Candidates)
    /\ LET left == Candidates[Len(Candidates)]
       IN /\ FLess(Zero, left.similarity)
          /\ \A i \in DOMAIN relevant_answers[1] :
                 relevant_answers[1][i].answer # left.answer
    /\ call.result.is_ai_generated = TRUE

\* C13: when the best similarity s is in 0 < s <= 0.2, process_question does
\* not call the synthesizer; the answer is the best candidate's stored
\* answer, is_ai_generated is true and the confidence is s.
C13_WeakBand ==
    (call.op = "process" /\ Candidates # << >>
        /\ FLess(Zero, BestSimilarity)
        /\ FLeq(BestSimilarity, Frac(2, 10))) =>
        /\ relevant_answers = << >>
        /\ call.result.answer = Candidates[1].answer
        /\ \E i \in DOMAIN ids :
               ids[i] = Candidates[1].id /\ answers[i] = call.result.answer
        /\ call.result.is_ai_generated = TRUE
        /\ call.result.confidence = BestSimilarity

\* a weak match at exactly 0.2 with a second candidate of another answer
C13_Witness ==
    /\ call.op = "process"
    /\ Len(Candidates) >= 2
    /\ BestSimilarity = Frac(2, 10)
    /\ FLess(Zero, Candidates[2].similarity)
    /\ Candidates[2].answer # Candidates[1].answer
    /\ relevant_answers = << >>
    /\ call.result.answer = Candidates[1].answer

\* the answer holds the note
HasNote(answer, note) ==
    \E i \in 1..(Len(answer) - Len(note) + 1) : SubSeq(answer, i, i + Len(note) - 1) = note

\* the note of the band the confidence is in, and no other note
NoteOfBand(answer, confidence) ==
    /\ HasNote(answer, NoteMultiple) <=> FLess(confidence, Frac(5, 10))
    /\ HasNote(answer, NoteClosely) <=>
           (FLeq(Frac(5, 10), confidence) /\ FLess(confidence, Frac(8, 10)))

\* C14 as stated: every result produced from candidates carries the note of
\* the band of its confidence: " (Based on multiple similar questions)" below
\* 0.5, " (Based on closely related questions)" from 0.5 to below 0.8, none
\* from 0.8.
C14_QualifierAlways ==
    (call.op = "process" /\ Candidates # << >>) =>
        NoteOfBand(call.result.answer, call.result.confidence)

\* C14: an answer built from the synthesizer's result carries the note of the
\* band of its confidence (multiple below 0.5, closely related from 0.5 to
\* below 0.8, none from 0.8); an exact match, and a fallback to the best
\* candidate's answer, carry no note.
C14_QualifierWhenSynthesized ==
    (call.op = "process" /\ Candidates # << >>) =>
        IF relevant_answers # << >>
              /\ Truthy(SynthesizeAnswer(call.question, relevant_answers[1]))
        THEN NoteOfBand(call.result.answer, call.result.confidence)
        ELSE /\ ~HasNote(call.result.answer, NoteMultiple)
             /\ ~HasNote(call.result.answer, NoteClosely)
             /\ call.result.answer = Candidates[1].answer

\* a synthesized answer with confidence in 0.8 <= s < 0.95 and no note
C14_Witness ==
    /\ call.op = "process"
    /\ relevant_answers # << >>
    /\ FLeq(Frac(8, 10), call.result.confidence)
    /\ call.result.is_ai_generated = TRUE
    /\ call.result.answer = SynthesizeAnswer(call.question, relevant_answers[1])

\* every entry of the corpus scores 0 against the question of the last call
AllScoresZero ==
    \A i \in DOMAIN questions :
        CalculateSimilarity(call.question, questions[i]) = Frac(0, 1)

\* C28: when the corpus is not empty and the best similarity is exactly 0,
\* process_question does not return the no-match result: it returns the
\* stored answer of the first entry of the corpus, confidence 0.0,
\* is_ai_generated true and a candidate list that is not empty.
C28_ZeroIsNotNoMatch ==
    (/\ call.op = "process"
     /\ questions # << >>
     /\ AllScoresZero
     /\ ~ProcessBodyRaises(call.question)) =>
        /\ call.result.answer # NoMatchText
        /\ call.result.answer = answers[1]
        /\ call.result.confidence = Frac(0, 1)
        /\ call.result.is_ai_generated = TRUE
        /\ Candidates # << >>
        /\ Candidates[1].id = ids[1]
        /\ relevant_answers = << >>

\* a question that shares nothing with two entries of different answers
C28_Witness ==
    /\ call.op = "process"
    /\ IsStr(call.question)
    /\ call.question # << >>
    /\ Len(questions) = 2
    /\ answers[1] # answers[2]
    /\ AllScoresZero
    /\ call.result.answer = answers[1]
    /\ call.result.is_ai_generated = TRUE

\* C30: is_ai_generated is false exactly when the candidate list is empty
\* (the no-match and the error result) or the best similarity is >= 0.95;
\* it is true for every result with a candidate and a best similarity below
\* 0.95, whether the answer is synthesized or the best candidate's.
C30_GeneratedFlag ==
    call.op = "process" =>
        /\ call.result.is_ai_generated = FALSE <=>
               \/ Candidates = << >>
               \/ FLeq(Frac(95, 100), BestSimilarity)
        /\ Candidates = << >> => call.result.answer \in {NoMatchText, ErrorText}
        /\ (Candidates # << >> /\ FLess(BestSimilarity, Frac(95, 100))) =>
               call.result.is_ai_generated = TRUE

\* a fallback to the best candidate's stored answer, marked as generated
C30_Witness ==
    /\ call.op = "process"
    /\ Candidates # << >>
    /\ FLess(Frac(0, 1), BestSimilarity)
    /\ relevant_answers = << >>
    /\ call.result.answer = Candidates[1].answer
    /\ call.result.is_ai_generated = TRUE

---------------------------------------------------------------------------
(* Properties of the answer text, checked under AnswerSpec. *)

\* the synthesizer was called and returned a text that is not empty
Synthesized ==
    /\ relevant_answers # << >>
    /\ Truthy(SynthesizeAnswer(call.question, relevant_answers[1]))

\* C21: _synthesize_answer returns None for an empty candidate list and for
\* a question on which it fails (one that is no str); and when the synthesizer
\* was not called or returned no text, the answer is the best candidate's
\* stored answer, unmodified, and the confidence is the best similarity.
C21_SynthesisFallback ==
    (call.op = "process" /\ Candidates # << >>) =>
        /\ IsStr(call.question) => SynthesizeAnswer(call.question, << >>) = NoneValue
        /\ SynthesizeAnswer(NoneValue, Candidates) = NoneValue
        /\ ~Synthesized =>
               /\ call.result.answer = Candidates[1].answer
               /\ \E i \in DOMAIN ids :
                      ids[i] = Candidates[1].id /\ answers[i] = call.result.answer
               /\ call.result.confidence = Candidates[1].similarity
               /\ \A i \in DOMAIN questions :
                      FLeq(CalculateSimilarity(call.question, questions[i]),
                           call.result.confidence)

\* the synthesizer was called on a stored answer of one space and returned
\* the empty text; the answer is the stored space
C21_Witness ==
    /\ call.op = "process"
    /\ relevant_answers # << >>
    /\ SynthesizeAnswer(call.question, relevant_answers[1]) = << >>
    /\ call.result.answer = << " " >>
    /\ FLess(Frac(2, 10), call.result.confidence)
    /\ call.result.is_ai_generated = TRUE

\* C22: in a synthesized answer that carries a note, a text ending in '.',
\* '!' or '?' keeps that character last with the note right before it, and
\* any other text is followed by the note and one '.'; the text is otherwise
\* the synthesizer's.
C22_NotePlacement ==
    (call.op = "process" /\ Synthesized) =>
        LET text == SynthesizeAnswer(call.question, relevant_answers[1])
            last == text[Len(text)]
        IN \A note \in {NoteMultiple, NoteClosely} :
               HasNote(call.result.answer, note) =>
                   IF last \in {".", "!", "?"}
                   THEN call.result.answer =
                            SubSeq(text, 1, Len(text) - 1) \o note \o << last >>
                   ELSE call.result.answer = text \o note \o << "." >>

\* an answer that ends in '?' or '!', with the note before that character
C22_Witness ==
    /\ call.op = "process"
    /\ Synthesized
    /\ HasNote(call.result.answer, NoteMultiple)
    /\ call.result.answer[Len(call.result.answer)] \in {"!", "?"}
    /\ call.result.answer[1] = "B"
    /\ Len(call.result.answer) = Len(NoteMultiple) + 2

---------------------------------------------------------------------------
(* The capital-of-France scenario, checked under ScenarioSpec. *)

FranceCall ==
    /\ call.op = "process"
    /\ Corpus = [ids |-> << 1 >>, questions |-> << FranceQuestion >>,
                 answers |-> << FranceAnswer >>]
    /\ call.question = FranceQuery

FranceSynthesizedAnswer ==
    << "P", "a", "r", "i", "s", " ", "(", "B", "a", "s", "e", "d", " ", "o",
      "n", " ", "c", "l", "o", "s", "e", "l", "y", " ", "r", "e", "l", "a",
      "t", "e", "d", " ", "q", "u", "e", "s", "t", "i", "o", "n", "s", ")",
      "." >>

\* C18 as stated: with the corpus [("What is the capital of France?",
\* "Paris")], process_question("what's the capital of france") returns a
\* best similarity above 0.6, is_ai_generated false and the answer "Paris".
C18_FranceStoredAnswer ==
    FranceCall =>
        /\ FLess(Frac(6, 10), call.result.confidence)
        /\ call.result.is_ai_generated = FALSE
        /\ call.result.answer = FranceAnswer

\* C18: with that corpus and that question the best similarity is above 0.6
\* and below 0.95, is_ai_generated is true and the answer is
\* "Paris (Based on closely related questions)."
C18_FranceSynthesized ==
    FranceCall =>
        /\ FLess(Frac(6, 10), call.result.confidence)
        /\ FLess(call.result.confidence, Frac(95, 100))
        /\ call.result.confidence = Candidates[1].similarity
        /\ call.result.is_ai_generated = TRUE
        /\ call.result.answer = FranceSynthesizedAnswer

\* the call of the scenario, answered from its one candidate
C18_Witness ==
    /\ FranceCall
    /\ Len(Candidates) = 1
    /\ Candidates[1].answer = FranceAnswer
    /\ call.result.answer = FranceSynthesizedAnswer

---------------------------------------------------------------------------
(* Properties of find_similar_questions, checked under RetrieveSpec. *)

NonIncreasing(cands) ==
    \A i \in DOMAIN cands : \A j \in DOMAIN cands :
        i < j => FLeq(cands[j].similarity, cands[i].similarity)

\* C7, as stated: for any query and any k, find_similar_questions returns at
\* most k candidates, in non-increasing order of similarity.
C7_AtMostAnyK ==
    call.op = "retrieve" =>
        /\ Len(call.result) <= call.k
        /\ NonIncreasing(call.result)

\* C7, amended: for any query and any k >= 0, find_similar_questions returns
\* at most k candidates; for every k the candidates are in non-increasing
\* order of similarity.
C7_AtMostK ==
    call.op = "retrieve" =>
        /\ call.k >= 0 => Len(call.result) <= call.k
        /\ NonIncreasing(call.result)

\* a ranking of two entries cut to its first
C7_Witness ==
    /\ call.op = "retrieve"
    /\ call.k = 1
    /\ Len(questions) = 2
    /\ Len(call.result) = 1
    /\ \E i \in DOMAIN questions :
           FLess(CalculateSimilarity(call.question, questions[i]),
                 call.result[1].similarity)

\* C17: when scoring a pair fails inside _calculate_similarity, the pair
\* scores 0.0 and find_similar_questions still scores every entry and returns
\* the ranking: with k >= 0, the first k entries by similarity, each with the
\* score of its own question. (A query that cannot be printed fails at line
\* 135, before any pair is scored.)
C17_ScoreFailureLocal ==
    (call.op = "retrieve" /\ call.k >= 0 /\ call.question # Unprintable
        /\ \E i \in DOMAIN questions : SimilarityRaises(call.question, questions[i])) =>
        /\ \A i \in DOMAIN questions :
               SimilarityRaises(call.question, questions[i]) =>
                   CalculateSimilarity(call.question, questions[i]) = Zero
        /\ Len(call.result) = IF call.k < Len(questions) THEN call.k ELSE Len(questions)
        /\ NonIncreasing(call.result)
        /\ \A p \in DOMAIN call.result :
               \E i \in DOMAIN questions :
                   /\ call.result[p].id = ids[i]
                   /\ call.result[p].question = questions[i]
                   /\ call.result[p].answer = answers[i]
                   /\ call.result[p].similarity =
                          CalculateSimilarity(call.question, questions[i])

\* a query that is not a str: every pair fails, both entries are returned
\* with 0.0, in the order of the corpus
C17_Witness ==
    /\ call.op = "retrieve"
    /\ call.question = NoneValue
    /\ Len(questions) = 2
    /\ Len(call.result) = 2
    /\ call.result[1].id = ids[1]
    /\ call.result[2].id = ids[2]
    /\ \A p \in DOMAIN call.result : call.result[p].similarity = Zero

\* the candidates of the last call, of either kind
Found ==
    IF call.op = "retrieve" THEN call.result
    ELSE IF call.op = "process" THEN call.result.similar_questions
    ELSE << >>

\* the place in the corpus of the entry with this id
Position(id) == CHOOSE i \in DOMAIN ids : ids[i] = id

\* the candidate made of the corpus entry i for the query of the last call
Entry(i) ==
    [id |-> ids[i], question |-> questions[i], answer |-> answers[i],
     similarity |-> CalculateSimilarity(call.question, questions[i])]

\* the entry i is among the candidates of the last call
IsReturned(i) == \E p \in DOMAIN Found : Found[p].id = ids[i]

\* C23: candidates of equal similarity appear in corpus order, and of two
\* entries of equal similarity the cut to the first k keeps the earlier one.
C23_TiesInCorpusOrder ==
    call.op \in {"retrieve", "process"} =>
        /\ \A p \in DOMAIN Found : \A r \in DOMAIN Found :
               (p < r /\ Found[p].similarity = Found[r].similarity) =>
                   Position(Found[p].id) < Position(Found[r].id)
        /\ \A i \in DOMAIN ids : \A j \in DOMAIN ids :
               (/\ i < j
                /\ Entry(i).similarity = Entry(j).similarity
                /\ call.question # Unprintable
                /\ IsReturned(j)) => IsReturned(i)

\* two entries of equal similarity above 0 of which the cut keeps the first
C23_Witness ==
    /\ call.op = "retrieve"
    /\ Len(ids) = 2
    /\ Entry(1).similarity = Entry(2).similarity
    /\ FLess(Frac(0, 1), Entry(1).similarity)
    /\ call.k = 1
    /\ call.result = << Entry(1) >>

Min(a, b) == IF a < b THEN a ELSE b

\* C24: for a corpus of n entries and k >= 0, find_similar_questions returns
\* min(k, n) candidates, the highest ranked, whatever their similarity: no
\* entry is left out for a low score, and the empty corpus gives the empty
\* list.
C24_NoCutoff ==
    (call.op = "retrieve" /\ call.k >= 0 /\ call.question # Unprintable) =>
        /\ Len(call.result) = Min(call.k, Len(questions))
        /\ \A p \in DOMAIN call.result : call.result[p] = Entry(Position(call.result[p].id))
        /\ \A i \in DOMAIN ids :
               IsReturned(i) \/ \A p \in DOMAIN call.result :
                                  FLeq(Entry(i).similarity, call.result[p].similarity)
        /\ questions = << >> => call.result = << >>

\* two entries returned for k = 2, the second with similarity 0
C24_Witness ==
    /\ call.op = "retrieve"
    /\ call.k = 2
    /\ call.question # Unprintable
    /\ Len(call.result) = 2
    /\ FLess(Frac(0, 1), call.result[1].similarity)
    /\ call.result[2].similarity = Frac(0, 1)

---------------------------------------------------------------------------
(* Properties of _load_knowledge_base, checked under LoadSpec. *)

\* a text that is empty once trimmed
Blank(text) == Strip(text) = << >>

\* the rows whose question and answer are both non-empty after trimming
NonBlankRows(rows) ==
    LET nonBlank(r) == ~Blank(r[2]) /\ ~Blank(r[3])
    IN SelectSeq(rows, nonBlank)

\* C25: after the load made at construction the corpus holds exactly the
\* stored rows whose question and answer are non-empty after trimming, in
\* store order; no entry has a blank question or a blank answer; and the
\* three lists have one length, position i of each coming from one row.
C25_NonBlankRowsOnly ==
    load.op = "none" =>
        /\ ids = [i \in DOMAIN NonBlankRows(store) |-> NonBlankRows(store)[i][1]]
        /\ \A i \in DOMAIN questions : ~Blank(questions[i])
        /\ \A i \in DOMAIN answers : ~Blank(answers[i])
        /\ Len(ids) = Len(questions) /\ Len(ids) = Len(answers)
        /\ \A i \in DOMAIN ids :
               \E r \in DOMAIN store :
                   /\ store[r][1] = ids[i]
                   /\ questions[i] = RemovePipes(Strip(store[r][2]))
                   /\ answers[i] = RemovePipes(Strip(store[r][3]))

\* the rows of the last load are all blank
OnlyBlankRows == store # << >> /\ NonBlankRows(store) = << >>

\* C29: a load that finds no rows, only blank rows or no table, or that
\* fails, leaves ids, questions and answers as they were; the three lists
\* change only to the rows kept from a table that has a non-blank row.
C29_FailedLoadKeepsCorpus ==
    load.op = "load" =>
        /\ (\/ load.found \in {"no table", "error"}
            \/ store = << >>
            \/ OnlyBlankRows) => Corpus = load.before
        /\ Corpus # load.before =>
               /\ load.found = "rows"
               /\ NonBlankRows(store) # << >>
               /\ ids # << >>
               /\ Corpus = LoadKnowledgeBase(store, EmptyCorpus)

\* a load of an emptied table on an engine that holds entries, which it keeps
C29_Witness ==
    /\ load.op = "load"
    /\ load.found = "rows"
    /\ store = << >>
    /\ Len(ids) = 2
    /\ Corpus = load.before

---------------------------------------------------------------------------
(* Properties of the progress stream, checked under ProgressSpec. *)

\* C26: for a run whose client has an open progress stream, every update
\* put on the queue, in order, up to and including "Complete", has been
\* delivered when the stream ends, the removal of the queue by the run
\* losing none; and the stream of a run that has started eventually ends.
C26_UpdatesDelivered ==
    /\ [](stream.pc = "ended" =>
             /\ stream.events = sent
             /\ stream.events = AllUpdates(producer.total))
    /\ ((stream.pc # "closed" /\ producer.pc # "idle") ~> (stream.pc = "ended"))

---------------------------------------------------------------------------
(* Properties of the checkout of an entry, checked under CheckoutSpec. *)

\* the users that hold an unexpired checkout of the row at the hour t: one
\* that was made less than 4 hours before
Holders(row, t) ==
    {u \in Users : /\ row.checked_out_by = << u >>
                   /\ row.checked_out_at # NoValue
                   /\ t - row.checked_out_at[1] < 4}

\* C27: an entry has at most one holder of an unexpired checkout.  A checkout
\* by another user while it is unexpired is rejected with 409; a checkin or
\* a cancel by a user who is not the holder, or after the expiry, is
\* rejected with 403; a rejected request leaves the row as it was.
C27_OneHolder ==
    /\ Cardinality(Holders(questionnaire, now)) <= 1
    /\ request.op # "none" =>
           LET holders == Holders(request.before, request.at)
           IN /\ (request.op = "checkout" /\ request.id = 1
                      /\ holders # {} /\ request.user \notin holders) =>
                     request.status = 409
              /\ (request.op \in {"checkin", "cancel"} /\ request.id = 1
                      /\ request.user \notin holders) =>
                     request.status = 403
              /\ request.status # 200 => questionnaire = request.before
              /\ (request.op = "checkout" /\ request.status = 200) =>
                     /\ holders \subseteq {request.user}
                     /\ Holders(questionnaire, request.at) = {request.user}
              /\ (request.op \in {"checkin", "cancel"} /\ request.status = 200) =>
                     /\ holders = {request.user}
                     /\ Holders(questionnaire, request.at) = {}

\* a checkin by the user who checked the entry out, made 4 hours later and
\* rejected with 403
C27_Witness ==
    /\ request.op = "checkin"
    /\ request.id = 1
    /\ request.before.checked_out_by = << request.user >>
    /\ request.at - request.before.checked_out_at[1] = 4
    /\ request.status = 403
    /\ questionnaire = request.before

---------------------------------------------------------------------------
(* Properties of _calculate_similarity, checked under ScoreSpec. *)

\* C8: the similarity of two strings is exactly 1.0 when they are equal,
\* equal ignoring case, or equal after lower-casing and removing punctuation;
\* so the similarity of any string with itself, the empty one too, is 1.0.
C8_EqualIsOne ==
    (fwd # << >> /\ IsStr(sa) /\ IsStr(sb)
        /\ (sa = sb \/ Lower(sa) = Lower(sb) \/ Clean(sa) = Clean(sb))) =>
        fwd[1] = One

\* two strings that differ in case and punctuation, scored 1.0
C8_Witness ==
    /\ fwd = << One >>
    /\ IsStr(sa)
    /\ IsStr(sb)
    /\ Lower(sa) # Lower(sb)
    /\ Clean(sa) = Clean(sb)
    /\ Clean(sa) # << >>

\* C9: the similarity is symmetric: _calculate_similarity(a, b) equals
\* _calculate_similarity(b, a) for all strings a and b.
C9_Symmetric ==
    (fwd # << >> /\ bwd # << >>) => fwd = bwd

\* C10, as stated: the similarity lies in [0, 1] for all inputs, and is 0.0
\* when both inputs are empty.
C10_UnitIntervalEmptyZero ==
    fwd # << >> =>
        /\ InUnitInterval(fwd[1])
        /\ (sa = << >> /\ sb = << >>) => fwd[1] = Zero

\* C10, amended: the similarity lies in [0, 1] for all inputs, strings that
\* are empty or clean to empty included, and is 1.0 when both inputs are
\* empty.
C10_UnitInterval ==
    fwd # << >> =>
        /\ InUnitInterval(fwd[1])
        /\ (sa = << >> /\ sb = << >>) => fwd[1] = One

\* a non-empty string that cleans to empty, scored against the empty string
C10_Witness ==
    /\ fwd # << >>
    /\ sa = << >>
    /\ IsStr(sb)
    /\ sb # << >>
    /\ Clean(sb) # << >>
    /\ Split(Clean(sb)) = << >>
    /\ fwd[1] = Frac(2, 10)

---------------------------------------------------------------------------
(* Properties of _synthesize_answer, checked under SynthSpec. *)

\* the answer as the grouping of yes and no reads it: trimmed, lower case
Normalized(answer) == Lower(Strip(answer))

\* the sum of the similarities of the candidates s[i], i in keep and i <= n
RECURSIVE SimilaritySum(_, _, _)
SimilaritySum(s, keep, n) ==
    IF n = 0 THEN Zero
    ELSE FAdd(SimilaritySum(s, keep, n - 1),
              IF n \in keep THEN s[n].similarity ELSE Zero)

AnswersYes == {i \in DOMAIN similar_qa : Normalized(similar_qa[i].answer) = YesKey}

AnswersNo == {i \in DOMAIN similar_qa : Normalized(similar_qa[i].answer) = NoKey}

TotalSimilarity == SimilaritySum(similar_qa, DOMAIN similar_qa, Len(similar_qa))

\* C11: when at least one candidate answers yes or no (in any case), the
\* result is "Yes" if the yes weight is more than 0.6 of the total weight of
\* all candidates, else "No" if the no weight is more than 0.6 of it, else the
\* "Partially ..." text; it is never the text of another group.
C11_YesNoRatios ==
    (synth.op = "synthesize" /\ IsStr(squestion)
        /\ AnswersYes \cup AnswersNo # {}) =>
        LET yesWeight == SimilaritySum(similar_qa, AnswersYes, Len(similar_qa))
            noWeight == SimilaritySum(similar_qa, AnswersNo, Len(similar_qa))
        IN synth.result =
               IF FLess(Frac(6, 10), FDiv(yesWeight, TotalSimilarity)) THEN YesText
               ELSE IF FLess(Frac(6, 10), FDiv(noWeight, TotalSimilarity)) THEN NoText
               ELSE PartiallyText

\* yes holds more than 0.6 of the yes and no weight, another answer outweighs
\* both, and the result is the "Partially ..." text
C11_Witness ==
    /\ synth.op = "synthesize"
    /\ AnswersYes # {}
    /\ LET yesWeight == SimilaritySum(similar_qa, AnswersYes, Len(similar_qa))
           noWeight == SimilaritySum(similar_qa, AnswersNo, Len(similar_qa))
       IN /\ FLess(Frac(6, 10), FDiv(yesWeight, FAdd(yesWeight, noWeight)))
          /\ \E g \in DOMAIN synth.groups :
                 /\ synth.groups[g].key \notin {YesKey, NoKey}
                 /\ FLess(FAdd(yesWeight, noWeight), synth.groups[g].weight)
    /\ synth.result = PartiallyText

\* the candidates whose answer has the trimmed, lower-case text of s[i]'s
SameIgnoringCase(s, i) ==
    {j \in DOMAIN s : Normalized(s[j].answer) = Normalized(s[i].answer)}

\* the candidates whose answer has the trimmed text of s[i]'s, or is yes or
\* no, in any case, as s[i]'s is
SameTrimmed(s, i) ==
    {j \in DOMAIN s :
        \/ Strip(s[j].answer) = Strip(s[i].answer)
        \/ /\ Normalized(s[i].answer) \in {YesKey, NoKey}
           /\ Normalized(s[j].answer) = Normalized(s[i].answer)}

\* the weight of the candidates in same, a set of indices of similar_qa
Weight(same) == SimilaritySum(similar_qa, same, Len(similar_qa))

\* C19 as stated: the groups are keyed by the trimmed, case-insensitive answer
\* text: candidates whose answers differ only in letter case or surrounding
\* whitespace are in one group, whose weight is the sum of their similarities.
C19_GroupsIgnoreCase ==
    (synth.op = "synthesize" /\ IsStr(squestion)) =>
        \A i \in DOMAIN similar_qa :
            \E g \in DOMAIN synth.groups :
                /\ Normalized(synth.groups[g].key) = Normalized(similar_qa[i].answer)
                /\ synth.groups[g].weight = Weight(SameIgnoringCase(similar_qa, i))

\* C19: the groups are keyed by the trimmed answer text, and by "yes" and "no"
\* for an answer that is yes or no in any case: candidates whose answers
\* differ only in surrounding whitespace are in one group, whose weight is the
\* sum of their similarities; no two groups have the same key.
C19_GroupsTrimmed ==
    (synth.op = "synthesize" /\ IsStr(squestion)) =>
        /\ \A i \in DOMAIN similar_qa :
               \E g \in DOMAIN synth.groups :
                   /\ synth.groups[g].key \in
                          {Strip(similar_qa[i].answer), Normalized(similar_qa[i].answer)}
                   /\ synth.groups[g].weight = Weight(SameTrimmed(similar_qa, i))
        /\ \A g, h \in DOMAIN synth.groups :
               synth.groups[g].key = synth.groups[h].key => g = h
        /\ Cardinality({SameTrimmed(similar_qa, i) : i \in DOMAIN similar_qa})
               = Len(synth.groups)

\* two answers that differ in leading whitespace share a group, and an answer
\* that differs from them in case has its own
C19_Witness ==
    /\ synth.op = "synthesize"
    /\ Len(similar_qa) = 3
    /\ similar_qa[1].answer = << "B", "." >>
    /\ similar_qa[2].answer = << "b", "." >>
    /\ similar_qa[3].answer = << " ", "B", "." >>
    /\ Len(synth.groups) = 2
    /\ synth.groups[1] = [key |-> << "B", "." >>,
                          weight |-> FAdd(similar_qa[1].similarity,
                                          similar_qa[3].similarity)]
    /\ synth.groups[2] = [key |-> << "b", "." >>,
                          weight |-> similar_qa[2].similarity]

\* C20: when no candidate answers yes or no, the result is the text of the
\* group with the largest weight, and of the heaviest groups the one whose
\* first candidate comes first.
C20_HeaviestFirstSeen ==
    (synth.op = "synthesize" /\ IsStr(squestion) /\ similar_qa # << >>
        /\ AnswersYes \cup AnswersNo = {}) =>
        \E i \in DOMAIN similar_qa :
            /\ synth.result = Strip(similar_qa[i].answer)
            /\ \A j \in DOMAIN similar_qa :
                   \/ FLess(Weight(SameTrimmed(similar_qa, j)),
                            Weight(SameTrimmed(similar_qa, i)))
                   \/ /\ Weight(SameTrimmed(similar_qa, j)) =
                             Weight(SameTrimmed(similar_qa, i))
                      /\ \E m \in SameTrimmed(similar_qa, i) : m <= j

\* two groups share the largest weight; the one returned has the first
\* candidate, and its other candidate comes after the other group's
C20_Witness ==
    /\ synth.op = "synthesize"
    /\ IsStr(squestion)
    /\ Len(similar_qa) = 3
    /\ AnswersYes \cup AnswersNo = {}
    /\ SameTrimmed(similar_qa, 1) = {1, 3}
    /\ Weight({1, 3}) = Weight({2})
    /\ synth.result = Strip(similar_qa[1].answer)
    /\ synth.result # Strip(similar_qa[2].answer)

---------------------------------------------------------------------------
(* Properties of concurrent calls and of the reload, checked under ConcSpec. *)

\* C15: a process_question call that overlaps a reload returns what it would
\* return on the complete corpus of before the reload or on the complete
\* corpus of after it.
C15_OldOrNew ==
    \A t \in Threads :
        (threads[t].pc = "done" /\ threads[t].reloaded) =>
            \/ threads[t].result = ProcessQuestion(reload.old, threads[t].question)
            \/ threads[t].result = ProcessQuestion(reload.new, threads[t].question)

\* C16: the steps of process_question leave the three lists of the corpus as
\* they were, and a call that no reload overlaps returns, whatever other
\* calls are interleaved with it, the result of the call made alone.
C16_CallsDoNotInterfere ==
    /\ reload.pc = "idle" => Corpus = LoadKnowledgeBase(store, EmptyCorpus)
    /\ \A t \in Threads :
           (threads[t].pc = "done" /\ ~threads[t].reloaded) =>
               /\ threads[t].after = threads[t].before
               /\ threads[t].result =
                      ProcessQuestion(threads[t].before, threads[t].question)

\* two interleaved calls with different questions and different results,
\* both returned, and no reload
C16_Witness ==
    /\ reload.pc = "idle"
    /\ \A t \in Threads : threads[t].pc = "done" /\ threads[t].interleaved
    /\ threads["t1"].question # threads["t2"].question
    /\ threads["t1"].result.answer # threads["t2"].result.answer
    /\ Len(threads["t1"].result.similar_questions) = 2
====